---- MODULE Spec2Model ----
(***************************************************************************)
(* CityBlocks: location resolution, Overpass footprint fetching, footprint *)
(* preparation, API-key persistence and the Center / Fetch handlers of the *)
(* home page, modelled as one state machine.                               *)
(*                                                                         *)
(* Text is a sequence of one-character strings.  A number is an exact      *)
(* decimal [num, den] (den a power of ten).  A length is an integer count  *)
(* of 1/upm metre.  An optional value is a sequence of length 0 or 1.      *)
(***************************************************************************)
EXTENDS Integers, Sequences, FiniteSets, TLC

VARIABLES
  rl,           \* the running resolveLocationString call
  geoReqs,      \* queries sent to Nominatim, in order
  olcCalls,     \* calls of decodePlusCode into the Open Location Code library
  fc,           \* the running fetchBuildings call
  fetchLog,     \* requests sent to Overpass, their answers and the waits, in order
  prep,         \* a call of prepareFootprints: its arguments and what it returned
  keysState,    \* ApiKeysProvider: the keys state (one per tab where two tabs run)
  keysRendered, \* ApiKeysProvider: the keys the last render closed over
  storage,      \* localStorage["cityblocks:apiKeys"]: <<>> when absent
  persisted,    \* "none" before any key operation, then "ok" or "failed" (a write threw)
  inbox,        \* storage events dispatched to each tab and not yet handled
  overlapped,   \* a tab changed the keys while storage events for it were pending
  app,          \* the React state of the home page
  handler,      \* the handleLocate / handleRender invocation in flight
  clicks,       \* how many times Center or Fetch was clicked
  card,         \* BuildingInfoCard with its useAI hook: aiInfo, loading, error
  proxy,        \* the /building-info request: its headers, the LLM calls, the answer
  sky,          \* ProceduralPlatform: the sky, its settings, the pending controls
  scene,        \* Buildings: the meshes in its group once its effect has run
  requests,     \* BuildingInfoCard: its generateBuildingInfo calls, in the order issued
  scope         \* which operations this behaviour exercises (fixed per behaviour)

resolveVars == <<rl, geoReqs, olcCalls>>
fetchVars == <<fc, fetchLog>>
prepVars == <<prep>>
keyVars == <<keysState, keysRendered, storage, persisted, inbox, overlapped>>
appVars == <<app, handler, clicks>>
viewVars == <<card, proxy, sky, scene, requests>>

vars == <<rl, geoReqs, olcCalls, fc, fetchLog, prep, keysState, keysRendered,
          storage, persisted, inbox, overlapped, app, handler, clicks, card,
          proxy, sky, scene, requests, scope>>

----------------------------------------------------------------------------
(* Bounds *)

MaxInputLen == 7
MaxGeometry == 3     \* coordinates per Overpass element
MaxElements == 1     \* elements per Overpass response
MaxRing == 3         \* vertices per footprint handed to prepareFootprints
MaxFootprints == 2   \* footprints handed to prepareFootprints

----------------------------------------------------------------------------
(* Text helpers: the JavaScript string operations the resolver uses *)

Max(a, b) == IF a >= b THEN a ELSE b
Min(a, b) == IF a <= b THEN a ELSE b
Abs(a) == IF a < 0 THEN 0 - a ELSE a

Digits == <<"0", "1", "2", "3", "4", "5", "6", "7", "8", "9">>
IsDigit(c) == \E i \in 1..10 : Digits[i] = c
DigitVal(c) == (CHOOSE i \in 1..10 : Digits[i] = c) - 1

IsSpace(c) == c = " "

Lower == <<"c", "f", "g", "h", "j", "m", "p", "q", "r", "v", "w", "x", "b">>
Upper == <<"C", "F", "G", "H", "J", "M", "P", "Q", "R", "V", "W", "X", "B">>

\* String.prototype.toUpperCase, one character
ToUpperChar(c) ==
  IF \E i \in 1..Len(Lower) : Lower[i] = c
  THEN Upper[CHOOSE i \in 1..Len(Lower) : Lower[i] = c]
  ELSE c

ToUpperCase(s) == [i \in 1..Len(s) |-> ToUpperChar(s[i])]

Contains(s, c) == \E i \in 1..Len(s) : s[i] = c

\* String.prototype.indexOf for one character, 0-based, -1 when absent
IndexOfChar(s, c) ==
  IF Contains(s, c)
  THEN (CHOOSE i \in 1..Len(s) : s[i] = c /\ \A j \in 1..(i - 1) : s[j] # c) - 1
  ELSE 0 - 1

RECURSIVE TrimStart(_)
TrimStart(s) ==
  IF s # <<>> /\ IsSpace(Head(s)) THEN TrimStart(Tail(s)) ELSE s

RECURSIVE TrimEnd(_)
TrimEnd(s) ==
  IF s # <<>> /\ IsSpace(s[Len(s)]) THEN TrimEnd(SubSeq(s, 1, Len(s) - 1)) ELSE s

\* String.prototype.trim
Trim(s) == TrimEnd(TrimStart(s))

\* The pieces of s between the occurrences of the character c (split on a
\* one-character separator; empty pieces are kept)
RECURSIVE SplitOn(_, _)
SplitOn(s, c) ==
  IF ~Contains(s, c) THEN <<s>>
  ELSE LET i == IndexOfChar(s, c) + 1
       IN <<SubSeq(s, 1, i - 1)>> \o SplitOn(SubSeq(s, i + 1, Len(s)), c)

\* str.split(/\s+/): the maximal runs without white space.  The empty pieces
\* JavaScript yields at the ends are dropped: no caller can select them.
RECURSIVE SplitWhitespace(_)
SplitWhitespace(s) ==
  LET t == TrimStart(s)
  IN IF t = <<>> THEN <<>>
     ELSE LET n == IF \E i \in 1..Len(t) : IsSpace(t[i])
                   THEN (CHOOSE i \in 1..Len(t) :
                           IsSpace(t[i]) /\ \A j \in 1..(i - 1) : ~IsSpace(t[j])) - 1
                   ELSE Len(t)
          IN <<SubSeq(t, 1, n)>> \o SplitWhitespace(SubSeq(t, n + 1, Len(t)))

\* Array.prototype.filter on a character sequence
RECURSIVE KeepChars(_, _)
KeepChars(s, keep) ==
  IF s = <<>> THEN <<>>
  ELSE (IF Head(s) \in keep THEN <<Head(s)>> ELSE <<>>) \o KeepChars(Tail(s), keep)

\* 0-based index of the first occurrence of sub in s, -1 when there is none
IndexOfSub(s, sub) ==
  LET hits == { i \in 1..(Len(s) - Len(sub) + 1) :
                  SubSeq(s, i, i + Len(sub) - 1) = sub }
  IN IF hits = {} THEN 0 - 1
     ELSE (CHOOSE i \in hits : \A j \in hits : i <= j) - 1

\* input.replace(pattern, ""): the first occurrence of a literal pattern removed
ReplaceFirst(s, sub) ==
  LET i == IndexOfSub(s, sub)
  IN IF i < 0 THEN s
     ELSE SubSeq(s, 1, i) \o SubSeq(s, i + Len(sub) + 1, Len(s))

----------------------------------------------------------------------------
(* Numbers *)

RECURSIVE Pow10(_)
Pow10(k) == IF k = 0 THEN 1 ELSE 10 * Pow10(k - 1)

RECURSIVE DigitsValue(_)
DigitsValue(ds) ==
  IF ds = <<>> THEN 0
  ELSE 10 * DigitsValue(SubSeq(ds, 1, Len(ds) - 1)) + DigitVal(ds[Len(ds)])

\* The same number with no trailing zero in its fraction
RECURSIVE Normalize(_)
Normalize(x) ==
  IF x.den > 1 /\ x.num % 10 = 0
  THEN Normalize([num |-> x.num \div 10, den |-> x.den \div 10])
  ELSE x

Num(n) == [num |-> n, den |-> 1]

\* -?\d+(?:\.\d+)?  : the shape of one captured group of LATLON_RE
IsDigitRun(s) == s # <<>> /\ \A i \in 1..Len(s) : IsDigit(s[i])

IsDecimal(s) ==
  LET u == IF s # <<>> /\ Head(s) = "-" THEN Tail(s) ELSE s
      parts == SplitOn(u, ".")
  IN \/ IsDigitRun(u)
     \/ Len(parts) = 2 /\ IsDigitRun(parts[1]) /\ IsDigitRun(parts[2])

\* parseFloat of a string of that shape
ParseFloat(s) ==
  LET neg == s # <<>> /\ Head(s) = "-"
      u == IF neg THEN Tail(s) ELSE s
      parts == SplitOn(u, ".")
      frac == IF Len(parts) = 2 THEN parts[2] ELSE <<>>
      mag == DigitsValue(parts[1]) * Pow10(Len(frac)) + DigitsValue(frac)
  IN Normalize([num |-> IF neg THEN 0 - mag ELSE mag, den |-> Pow10(Len(frac))])

----------------------------------------------------------------------------
(* Geocoding utilities (Plus Codes + Nominatim) *)

\* LATLON_RE = /^\s*(-?\d+(?:\.\d+)?)\s*,\s*(-?\d+(?:\.\d+)?)\s*$/
\* The two captured groups, or <<>> when the input does not match.
MatchLatLon(input) ==
  LET parts == SplitOn(input, ",")
  IN IF Len(parts) = 2 /\ IsDecimal(Trim(parts[1])) /\ IsDecimal(Trim(parts[2]))
     THEN <<Trim(parts[1]), Trim(parts[2])>>
     ELSE <<>>

PlusCodeChars ==
  {"2", "3", "4", "5", "6", "7", "8", "9", "C", "F", "G", "H", "J", "M", "P",
   "Q", "R", "V", "W", "X", "+"}

\* extractPlusCode: <<code>>, or <<>> for null
extractPlusCode(str) ==
  LET withPlus == SelectSeq(SplitWhitespace(str), LAMBDA t : Contains(t, "+"))
  IN IF str = <<>> \/ withPlus = <<>> THEN <<>>
     ELSE LET cleaned == KeepChars(ToUpperCase(withPlus[1]), PlusCodeChars)
              ab == SplitOn(cleaned, "+")
          IN IF ~Contains(cleaned, "+") THEN <<>>
             ELSE IF Len(ab[1]) >= 2 /\ Len(ab[2]) >= 2
                  THEN <<ab[1] \o <<"+">> \o ab[2]>>
                  ELSE <<>>

\* The text resolveLocationString geocodes as the reference point of a code
LocalityOf(input, code) == Trim(ReplaceFirst(input, code))

\* decodePlusCode's test for a short code, recovered against the reference
IsShortCode(code) ==
  Len(code) <= 8 \/ (Contains(code, "+") /\ IndexOfChar(code, "+") <= 4)

Coord(lat, lon) == [lat |-> lat, lon |-> lon]

\* What the Nominatim request can come back with: a first hit, an HTTP error
\* status, an empty result list, or a failed fetch
GeoCoords == {Coord(Num(48), Num(2)), Coord(Num(60), Num(25))}

GeoOutcomes ==
  {[kind |-> "ok", at |-> c] : c \in GeoCoords}
    \cup {[kind |-> k, at |-> Coord(Num(0), Num(0))] : k \in {"http", "empty", "network"}}

\* geocodeNominatim, given what the request came back with
geocodeNominatim(g) ==
  CASE g.kind = "ok" -> [ok |-> TRUE, at |-> g.at, err |-> ""]
    [] g.kind = "http" -> [ok |-> FALSE, at |-> g.at, err |-> "Nominatim error"]
    [] g.kind = "empty" -> [ok |-> FALSE, at |-> g.at, err |-> "No results from Nominatim"]
    [] OTHER -> [ok |-> FALSE, at |-> g.at, err |-> "Failed to fetch"]

\* What the Open Location Code library answers for a code and a reference:
\* the centre of the decoded area, or the code is not valid
OlcCentres == {Coord(Num(52), Num(13))}

OlcOutcomes ==
  {[valid |-> TRUE, at |-> c] : c \in OlcCentres}
    \cup {[valid |-> FALSE, at |-> Coord(Num(0), Num(0))]}

\* decodePlusCode, given the library's answer
decodePlusCode(code, ref, olc) ==
  IF olc.valid
  THEN [ok |-> TRUE, at |-> olc.at, err |-> ""]
  ELSE [ok |-> FALSE, at |-> olc.at,
        err |-> IF IsShortCode(code) THEN "Invalid short code" ELSE "Invalid Plus Code"]

OlcCall(code, ref) == [code |-> code, short |-> IsShortCode(code), ref |-> ref]

RlIdle ==
  [pc |-> "idle", input |-> <<>>, fallback |-> Coord(Num(0), Num(0)),
   code |-> <<>>, via |-> "none", result |-> <<>>, err |-> ""]

\* The state of a call after decodePlusCode returned or threw
AfterDecode(call, code, ref, olc) ==
  LET d == decodePlusCode(code, ref, olc)
  IN IF d.ok
     THEN [call EXCEPT !.pc = "done", !.via = "pluscode", !.result = <<d.at>>]
     ELSE [call EXCEPT !.pc = "error", !.via = "pluscode", !.err = d.err]

\* resolveLocationString up to its first await (or to its end when it awaits
\* nothing): the call's state, the Nominatim queries sent, the library calls
resolveLocationString(input, fallback, olc) ==
  LET call == [RlIdle EXCEPT !.input = input, !.fallback = fallback]
      m == MatchLatLon(input)
      code == extractPlusCode(input)
  IN IF input = <<>> \/ Trim(input) = <<>>
     THEN [call |-> [call EXCEPT !.pc = "error", !.err = "Empty location query"],
           sent |-> <<>>, calls |-> <<>>]
     ELSE IF m # <<>>
     THEN [call |-> [call EXCEPT !.pc = "done", !.via = "latlon",
                       !.result = <<Coord(ParseFloat(m[1]), ParseFloat(m[2]))>>],
           sent |-> <<>>, calls |-> <<>>]
     ELSE IF code # <<>>
     THEN LET locality == LocalityOf(input, code[1])
          IN IF Len(locality) > 0
             THEN [call |-> [call EXCEPT !.pc = "geoRef", !.code = code],
                   sent |-> <<locality>>, calls |-> <<>>]
             ELSE [call |-> AfterDecode([call EXCEPT !.code = code], code[1], fallback, olc),
                   sent |-> <<>>, calls |-> <<OlcCall(code[1], fallback)>>]
     ELSE [call |-> [call EXCEPT !.pc = "geoFull"], sent |-> <<input>>, calls |-> <<>>]

\* resolveLocationString resumed when its Nominatim request settles
resolveAfterGeocode(call, g, olc) ==
  LET r == geocodeNominatim(g)
  IN IF call.pc = "geoRef"
     THEN LET ref == IF r.ok THEN r.at ELSE call.fallback
          IN [call |-> AfterDecode(call, call.code[1], ref, olc),
              sent |-> <<>>, calls |-> <<OlcCall(call.code[1], ref)>>]
     ELSE [call |-> IF r.ok
                    THEN [call EXCEPT !.pc = "done", !.via = "nominatim", !.result = <<r.at>>]
                    ELSE [call EXCEPT !.pc = "error", !.via = "nominatim", !.err = r.err],
           sent |-> <<>>, calls |-> <<>>]

----------------------------------------------------------------------------
(* Overpass fetching for buildings *)

\* a - b for two decimals, over their larger denominator
DecimalDiff(a, b) ==
  LET d == Max(a.den, b.den)
  IN [num |-> a.num * (d \div a.den) - b.num * (d \div b.den), den |-> d]

\* 1000 * Math.cos(latDeg * DEG2RAD), by Bhaskara's rational approximation
\* (exact at 0 and 60 degrees, within 2 per mille elsewhere) on whole degrees
CosMilli(latDeg) ==
  LET x == Abs(latDeg.num) \div latDeg.den
  IN (1000 * (32400 - 4 * x * x)) \div (32400 + x * x)

metersPerDegreeLon(latDeg) == (111320 * CosMilli(latDeg)) \div 1000

metersPerDegreeLat == 110540

\* d degrees times perDegree metres, as a count of 1/upm metre (rounded down)
ToLength(d, perDegree, upm) ==
  IF d.den % upm = 0
  THEN (d.num * perDegree) \div (d.den \div upm)
  ELSE (d.num * perDegree * upm) \div d.den

\* llToLocalMeters, in lengths of 1/upm metre
llToLocalMeters(lat0, lon0, lat, lon, upm) ==
  LET dLon == DecimalDiff(lon, lon0)
      dLat == DecimalDiff(lat, lat0)
  IN [x |-> ToLength(dLon, metersPerDegreeLon(lat0), upm),
      y |-> ToLength(dLat, metersPerDegreeLat, upm)]

OVERPASS_ENDPOINTS == <<"de", "kumi", "ru">>

AttemptsPerEndpoint == 2

RetryableStatuses == {429, 503, 504}

\* Mutant of BackoffMs: the same delay before every retry
BackoffMs_Fixed(attempt) == 2000

\* setTimeout(resolve, 2000 * (attempt + 1))
BackoffMs(attempt) == 2000 * (attempt + 1)

\* Squared distance of two points
Dist2(p, q) == (p.x - q.x) * (p.x - q.x) + (p.y - q.y) * (p.y - q.y)

\* pts[0].distanceTo(pts[pts.length - 1]) > 0.01
IsOpenRing(pts, upm) ==
  Dist2(pts[1], pts[Len(pts)]) * 10000 > upm * upm

\* parseFloat of any text: the value of the longest leading decimal, <<>> for NaN
ParseFloatLoose(s) ==
  LET t == TrimStart(s)
      lens == { n \in 1..Len(t) : IsDecimal(SubSeq(t, 1, n)) }
  IN IF lens = {} THEN <<>>
     ELSE <<ParseFloat(SubSeq(t, 1, CHOOSE n \in lens : \A k \in lens : k <= n))>>

\* String(tags.height).replace(/m$/i, "")
StripMetres(s) ==
  IF s # <<>> /\ s[Len(s)] \in {"m", "M"} THEN SubSeq(s, 1, Len(s) - 1) ELSE s

DecimalLess(a, b) == a.num * b.den < b.num * a.den
DecimalMax(a, b) == IF DecimalLess(a, b) THEN b ELSE a
DecimalMin(a, b) == IF DecimalLess(b, a) THEN b ELSE a

\* The height fetchBuildings gives an element: tags.height, else
\* building:levels * 3 clamped to 3..60, else a random height by building type.
\* half is Math.random() in halves (0 or 1).
HeightOf(tags, half) ==
  LET byHeight == IF tags.height = <<>> THEN <<>>
                  ELSE ParseFloatLoose(StripMetres(tags.height))
      levels == IF tags.levels = <<>> THEN <<>> ELSE ParseFloatLoose(tags.levels)
  IN IF byHeight # <<>> THEN byHeight[1]
     ELSE IF levels # <<>>
     THEN DecimalMax(Num(3), DecimalMin(Num(60),
            Normalize([num |-> levels[1].num * 3, den |-> levels[1].den])))
     ELSE IF tags.building \in {"house", "residential"} THEN Num(9 + half * 3)
     ELSE IF tags.building = "garage" THEN Num(4 + half * 1)
     ELSE Num(12 + half * 9)

\* The footprint of one Overpass element, <<>> when the element is skipped
FootprintOf(el, lat, lon, half, upm) ==
  IF el.type # "way" \/ el.geometry = <<>> \/ Len(el.geometry[1]) < 3
  THEN <<>>
  ELSE LET g == el.geometry[1]
           pts == [i \in 1..Len(g) |-> llToLocalMeters(lat, lon, g[i].lat, g[i].lon, upm)]
           closed == IF IsOpenRing(pts, upm) THEN Append(pts, pts[1]) ELSE pts
       IN <<[pts |-> closed, height |-> HeightOf(el.tags, half), tags |-> el.tags,
             metadata |-> <<>>]>>

\* The loop over data.elements; halves[i] is the random draw of element i
RECURSIVE FootprintsOf(_, _, _, _, _)
FootprintsOf(elements, lat, lon, halves, upm) ==
  IF elements = <<>> THEN <<>>
  ELSE FootprintOf(Head(elements), lat, lon, Head(halves), upm)
         \o FootprintsOf(Tail(elements), lat, lon, Tail(halves), upm)

FcIdle ==
  [pc |-> "idle", endpointIdx |-> 0, attempt |-> 0,
   at |-> Coord(Num(0), Num(0)), sizeMeters |-> 0,
   lastError |-> "", result |-> <<>>, err |-> ""]

FetchEvent(ev, call, kind, ms) ==
  [ev |-> ev, endpoint |-> OVERPASS_ENDPOINTS[call.endpointIdx + 1],
   attempt |-> call.attempt, at |-> call.at, sizeMeters |-> call.sizeMeters,
   kind |-> kind, ms |-> ms]

\* The message of the error fetchBuildings throws once every attempt failed
BuildingDataUnavailable(lastError) ==
  CASE lastError = "" -> "Building data unavailable (last error: unknown)"
    [] lastError = "Overpass API returned 500" ->
         "Building data unavailable (last error: Overpass API returned 500)"
    [] lastError = "Failed to fetch" ->
         "Building data unavailable (last error: Failed to fetch)"
    [] OTHER -> "Building data unavailable (last error: Unexpected token)"

\* fetchBuildings up to its first await: the first request is sent
fetchBuildings(at, sizeMeters) ==
  LET call == [FcIdle EXCEPT !.pc = "request", !.at = at, !.sizeMeters = sizeMeters]
  IN [call |-> call, log |-> <<FetchEvent("request", call, "", 0)>>]

\* Mutant of fetchNextAttempt: a failed endpoint is given up at once
fetchNextAttempt_NoRetry(call) ==
  LET onward == [call EXCEPT !.pc = "request", !.attempt = 0,
                   !.endpointIdx = call.endpointIdx + 1]
  IN IF call.endpointIdx + 1 < Len(OVERPASS_ENDPOINTS)
     THEN [call |-> onward, log |-> <<FetchEvent("request", onward, "", 0)>>]
     ELSE [call |-> [call EXCEPT !.pc = "error",
                       !.err = BuildingDataUnavailable(call.lastError)],
           log |-> <<>>]

\* The two for loops stepping on after an attempt: the next attempt on this
\* endpoint, else the first on the next endpoint, else the final throw
fetchNextAttempt(call) ==
  LET again == [call EXCEPT !.pc = "request", !.attempt = call.attempt + 1]
      onward == [call EXCEPT !.pc = "request", !.attempt = 0,
                   !.endpointIdx = call.endpointIdx + 1]
  IN IF call.attempt + 1 < AttemptsPerEndpoint
     THEN [call |-> again, log |-> <<FetchEvent("request", again, "", 0)>>]
     ELSE IF call.endpointIdx + 1 < Len(OVERPASS_ENDPOINTS)
     THEN [call |-> onward, log |-> <<FetchEvent("request", onward, "", 0)>>]
     ELSE [call |-> [call EXCEPT !.pc = "error",
                       !.err = BuildingDataUnavailable(call.lastError)],
           log |-> <<>>]

\* The catch block: remember the error, wait unless this was the last attempt
\* on the endpoint
fetchCatch(call, message, kind) ==
  LET failed == [call EXCEPT !.lastError = message]
  IN IF call.attempt < 1
     THEN [call |-> [failed EXCEPT !.pc = "wait"],
           log |-> <<FetchEvent("response", call, kind, 0),
                     FetchEvent("wait", call, kind, BackoffMs(call.attempt))>>]
     ELSE LET n == fetchNextAttempt(failed)
          IN [call |-> n.call, log |-> <<FetchEvent("response", call, kind, 0)>> \o n.log]

\* fetchBuildings resumed when its request settles.  o is what came back: an
\* HTTP status, a failed fetch, a body that is not JSON, or the parsed data
fetchAfterResponse(call, o, halves, upm) ==
  CASE o.kind = "status" /\ o.status \in RetryableStatuses ->
         [call |-> [call EXCEPT !.pc = "wait"],
          log |-> <<FetchEvent("response", call, "retryable", 0),
                    FetchEvent("wait", call, "retryable", BackoffMs(call.attempt))>>]
    [] o.kind = "status" /\ o.status \notin RetryableStatuses ->
         fetchCatch(call, "Overpass API returned 500", "status")
    [] o.kind = "network" -> fetchCatch(call, "Failed to fetch", "network")
    [] o.kind = "unparsable" -> fetchCatch(call, "Unexpected token", "unparsable")
    [] OTHER ->
         [call |-> [call EXCEPT !.pc = "done",
                      !.result = FootprintsOf(o.elements, call.at.lat, call.at.lon,
                                              halves, upm)],
          log |-> <<FetchEvent("response", call, "ok", 0)>>]

\* Mutant of fetchAfterWait: the retry does not count as an attempt
fetchAfterWait_SameAttempt(call) ==
  [call |-> [call EXCEPT !.pc = "request"],
   log |-> <<FetchEvent("request", call, "", 0)>>]

\* fetchBuildings resumed when its setTimeout fires
fetchAfterWait(call) == fetchNextAttempt(call)

----------------------------------------------------------------------------
(* Footprint preparation: hero selection, centring, fit to the platform *)

\* Fractions num/den with den > 0, compared by value
FracLess(a, b) == a.num * b.den < b.num * a.den
FracEq(a, b) == a.num * b.den = b.num * a.den
FracMax(a, b) == IF FracLess(a, b) THEN b ELSE a

RECURSIVE SumOf(_, _)
SumOf(pts, axis) ==
  IF pts = <<>> THEN 0
  ELSE (IF axis = "x" THEN Head(pts).x ELSE Head(pts).y) + SumOf(Tail(pts), axis)

\* computeFootprintCentroid: the average of the vertices, as two fractions
computeFootprintCentroid(pts) ==
  [x |-> [num |-> SumOf(pts, "x"), den |-> Len(pts)],
   y |-> [num |-> SumOf(pts, "y"), den |-> Len(pts)]]

\* centroid.x * centroid.x + centroid.y * centroid.y
CentroidDist2(c) ==
  [num |-> c.x.num * c.x.num + c.y.num * c.y.num, den |-> c.x.den * c.x.den]

\* Mutant of IsNearer: a later footprint at the same distance replaces the best
IsNearer_OrEqual(dist, bestDist) ==
  bestDist = <<>> \/ ~FracLess(bestDist[1], dist)

\* dist < bestDist, where bestDist starts at Infinity (<<>>)
IsNearer(dist, bestDist) ==
  bestDist = <<>> \/ FracLess(dist, bestDist[1])

\* The forEach of selectPrimaryFootprint from footprint idx on
RECURSIVE SelectFrom(_, _, _)
SelectFrom(footprints, idx, best) ==
  IF idx > Len(footprints) THEN best
  ELSE LET centroid == computeFootprintCentroid(footprints[idx].pts)
           dist == CentroidDist2(centroid)
       IN SelectFrom(footprints, idx + 1,
            IF IsNearer(dist, best.dist)
            THEN [index |-> idx, dist |-> <<dist>>, centroid |-> centroid]
            ELSE best)

\* selectPrimaryFootprint: <<>> for null, else <<[index, centroid]>>, the
\* index counted from 1
selectPrimaryFootprint(footprints) ==
  IF footprints = <<>> THEN <<>>
  ELSE LET best == SelectFrom(footprints, 1,
                     [index |-> 1, dist |-> <<>>,
                      centroid |-> [x |-> [num |-> 0, den |-> 1],
                                    y |-> [num |-> 0, den |-> 1]]])
       IN <<[index |-> best.index, centroid |-> best.centroid]>>

\* pt - centroid on one axis, over the centroid's denominator
Centred(v, c) == [num |-> c.den * v - c.num, den |-> c.den]

\* Mutant of HeroRadius2: the reduce starts from 0 instead of 1
RECURSIVE HeroRadius2_FromZero(_, _, _)
HeroRadius2_FromZero(pts, centroid, upm) ==
  IF pts = <<>> THEN [num |-> 0, den |-> 1]
  ELSE LET dx == Centred(Head(pts).x, centroid.x)
           dy == Centred(Head(pts).y, centroid.y)
       IN FracMax(HeroRadius2_FromZero(Tail(pts), centroid, upm),
                  [num |-> dx.num * dx.num + dy.num * dy.num, den |-> dx.den * dx.den])

\* The square of maxRadius: the reduce over the hero's vertices of
\* Math.max(acc, Math.hypot(dx, dy)), started from 1 (metre)
RECURSIVE HeroRadius2(_, _, _)
HeroRadius2(pts, centroid, upm) ==
  IF pts = <<>> THEN [num |-> upm * upm, den |-> 1]
  ELSE LET dx == Centred(Head(pts).x, centroid.x)
           dy == Centred(Head(pts).y, centroid.y)
       IN FracMax(HeroRadius2(Tail(pts), centroid, upm),
                  [num |-> dx.num * dx.num + dy.num * dy.num, den |-> dx.den * dx.den])

\* A scale factor margin / sqrt(r2), kept exact as the pair (margin, r2)
UnitScale == [margin |-> [num |-> 1, den |-> 1], r2 |-> [num |-> 1, den |-> 1]]

\* fitScale = maxRadius > 0 ? margin / maxRadius : 1, margin = platformSize * 0.35
FitScale(platformSize, r2, upm) ==
  IF r2.num > 0
  THEN [margin |-> [num |-> platformSize * 35 * upm, den |-> 100], r2 |-> r2]
  ELSE UnitScale

\* The product of the fraction q and the scale factor by
Scaled(q, by) == [num |-> q.num, den |-> q.den, by |-> by]

\* computeFootprintCentroid of centred, scaled vertices (one denominator, one
\* factor)
CentroidOfScaled(pts, by) ==
  LET raw == computeFootprintCentroid(
               [i \in 1..Len(pts) |-> [x |-> pts[i].x.num, y |-> pts[i].y.num]])
      den == pts[1].x.den
  IN [x |-> Scaled([num |-> raw.x.num, den |-> den * raw.x.den], by),
      y |-> Scaled([num |-> raw.y.num, den |-> den * raw.y.den], by)]

Origin ==
  [x |-> Scaled([num |-> 0, den |-> 1], UnitScale),
   y |-> Scaled([num |-> 0, den |-> 1], UnitScale)]

\* prepareFootprints; platformSize in metres
prepareFootprints(footprints, platformSize, upm) ==
  LET selection == selectPrimaryFootprint(footprints)
  IN IF selection = <<>> THEN <<>>
     ELSE
       LET sel == selection[1]
           fitScale == FitScale(platformSize,
                         HeroRadius2(footprints[sel.index].pts, sel.centroid, upm), upm)
           Prepared(idx) ==
             LET fp == footprints[idx]
                 centered ==
                   [j \in 1..Len(fp.pts) |->
                      [x |-> Scaled(Centred(fp.pts[j].x, sel.centroid.x), fitScale),
                       y |-> Scaled(Centred(fp.pts[j].y, sel.centroid.y), fitScale)]]
             IN [pts |-> centered,
                 height |-> Scaled(fp.height, fitScale),
                 tags |-> fp.tags,
                 metadata |-> <<[centroid |-> IF idx = sel.index THEN Origin
                                              ELSE CentroidOfScaled(centered, fitScale),
                                 hero |-> idx = sel.index,
                                 scale |-> fitScale]>>]
       IN [idx \in 1..Len(footprints) |-> Prepared(idx)]

----------------------------------------------------------------------------
(* Buildings *)

\* buildingMeshFromFootprint throws on a footprint without points
MeshBuilds(fp) == fp.pts # <<>>

\* One turn of the forEach in the effect of Buildings: the mesh added to the
\* group for a footprint, or none when building it threw
MeshFor(footprints, idx) ==
  LET fp == footprints[idx]
      isHero == fp.metadata # <<>> /\ fp.metadata[1].hero
  IN IF MeshBuilds(fp)
     THEN <<[of |-> idx, hero |-> isHero, pts |-> fp.pts, height |-> fp.height]>>
     ELSE <<>>

RECURSIVE MeshesUpTo(_, _)
MeshesUpTo(footprints, n) ==
  IF n = 0 THEN <<>> ELSE MeshesUpTo(footprints, n - 1) \o MeshFor(footprints, n)

\* The effect of Buildings: the group is emptied and refilled from footprints
Buildings(footprints) == [meshes |-> MeshesUpTo(footprints, Len(footprints))]

----------------------------------------------------------------------------
(* The parts of the state a behaviour leaves alone *)

ResolveQuiet == rl = RlIdle /\ geoReqs = <<>> /\ olcCalls = <<>>
FetchQuiet == fc = FcIdle /\ fetchLog = <<>>

PrepIdle ==
  [pc |-> "idle", input |-> <<>>, platformSize |-> 0, selection |-> <<>>, output |-> <<>>]

PrepareQuiet == prep = PrepIdle

KeysQuiet ==
  /\ keysState = <<>> /\ keysRendered = <<>> /\ storage = <<>> /\ persisted = "none"
  /\ inbox = <<>> /\ overlapped = FALSE

AppQuiet == app = <<>> /\ handler = <<>> /\ clicks = 0

ViewQuiet == card = <<>> /\ proxy = <<>> /\ sky = <<>> /\ scene = <<>> /\ requests = <<>>

----------------------------------------------------------------------------
(* resolveLocationString on its own: one call on any short input *)

ResolveAlphabet == {"2", ",", "+", "f", " "}

ResolveInputs == UNION {[1..n -> ResolveAlphabet] : n \in 0..MaxInputLen}

Fallbacks == {Coord([num |-> 5252, den |-> 100], [num |-> 13405, den |-> 1000])}

InitResolve ==
  /\ scope = "resolve"
  /\ ResolveQuiet /\ FetchQuiet /\ PrepareQuiet /\ ViewQuiet /\ KeysQuiet /\ AppQuiet

ResolveCall ==
  /\ scope = "resolve"
  /\ rl.pc = "idle"
  /\ \E input \in ResolveInputs, fallback \in Fallbacks, olc \in OlcOutcomes :
       LET r == resolveLocationString(input, fallback, olc)
       IN /\ rl' = r.call
          /\ geoReqs' = geoReqs \o r.sent
          /\ olcCalls' = olcCalls \o r.calls
  /\ UNCHANGED <<fetchVars, prepVars, keyVars, appVars, viewVars, scope>>

ResolveGeocodeSettles ==
  /\ scope = "resolve"
  /\ rl.pc \in {"geoRef", "geoFull"}
  /\ \E g \in GeoOutcomes, olc \in OlcOutcomes :
       LET r == resolveAfterGeocode(rl, g, olc)
       IN /\ rl' = r.call
          /\ geoReqs' = geoReqs \o r.sent
          /\ olcCalls' = olcCalls \o r.calls
  /\ UNCHANGED <<fetchVars, prepVars, keyVars, appVars, viewVars, scope>>

NextResolve == ResolveCall \/ ResolveGeocodeSettles

SpecResolve == InitResolve /\ [][NextResolve]_vars

----------------------------------------------------------------------------
(* fetchBuildings on its own: one call, every sequence of answers *)

\* Lengths are counted in millimetres where map data is fetched and in metres
\* where footprints are prepared on their own
Upm(s) == IF s = "prepare" THEN 1 ELSE 1000

\* x + k * 1e-7 degrees: map coordinates come with seven decimals
OffsetDegrees(x, k) ==
  [num |-> x.num * (10000000 \div x.den) + k, den |-> 10000000]

\* Coordinates next to the centre of the query: the centre, one step east,
\* one step north
NearbyCoords(at) ==
  {Coord(OffsetDegrees(at.lat, d[1]), OffsetDegrees(at.lon, d[2])) :
     d \in {<<0, 0>>, <<0, 1>>, <<1, 0>>}}

NoTags == [height |-> <<>>, levels |-> <<>>, building |-> "yes"]

TagChoices ==
  {NoTags,
   [height |-> <<"1", "2", "m">>, levels |-> <<"9">>, building |-> "yes"],
   [height |-> <<"x">>, levels |-> <<"2">>, building |-> "house"]}

Geometries(at) == UNION {[1..n -> NearbyCoords(at)] : n \in 0..MaxGeometry}

Elements(at) ==
  {[type |-> t, geometry |-> g, tags |-> tg] :
     t \in {"way", "node"},
     g \in {<<>>} \cup {<<x>> : x \in Geometries(at)},
     tg \in TagChoices}

\* A closed triangle around the centre, as Overpass returns a building way
TriangleWay(at) ==
  [type |-> "way",
   geometry |-> <<[i \in 1..4 |->
                    Coord(OffsetDegrees(at.lat, <<0, 0, 300, 0>>[i]),
                          OffsetDegrees(at.lon, <<0, 300, 0, 0>>[i]))]>>,
   tags |-> NoTags]

OkResponses(at) ==
  IF scope = "parse"
  THEN UNION {[1..n -> Elements(at)] : n \in 0..MaxElements}
  ELSE {<<>>, <<TriangleWay(at)>>}

Failure(kind, status) == [kind |-> kind, status |-> status, elements |-> <<>>]

\* What a request to Overpass can come back with
OverpassOutcomes(at) ==
  {[kind |-> "ok", status |-> 200, elements |-> e] : e \in OkResponses(at)}
    \cup {Failure("status", 429)}
    \cup (IF scope = "fetch"
          THEN {Failure("status", 503), Failure("status", 504), Failure("status", 500),
                Failure("network", 0), Failure("unparsable", 200)}
          ELSE {})

Halves(o) == [1..Len(o.elements) -> {0, 1}]

FetchCentres == {Coord(Num(60), Num(25)), Coord(Num(0), Num(0))}

InitFetch ==
  /\ scope = "fetch"
  /\ ResolveQuiet /\ FetchQuiet /\ PrepareQuiet /\ ViewQuiet /\ KeysQuiet /\ AppQuiet

InitParse ==
  /\ scope = "parse"
  /\ ResolveQuiet /\ FetchQuiet /\ PrepareQuiet /\ ViewQuiet /\ KeysQuiet /\ AppQuiet

FetchCall ==
  /\ scope \in {"fetch", "parse"}
  /\ fc.pc = "idle"
  /\ \E at \in FetchCentres :
       LET r == fetchBuildings(at, 250)
       IN fc' = r.call /\ fetchLog' = fetchLog \o r.log
  /\ UNCHANGED <<resolveVars, prepVars, keyVars, appVars, viewVars, scope>>

FetchSettles ==
  /\ scope \in {"fetch", "parse"}
  /\ fc.pc = "request"
  /\ \E o \in OverpassOutcomes(fc.at) : \E halves \in Halves(o) :
       LET r == fetchAfterResponse(fc, o, halves, Upm(scope))
       IN fc' = r.call /\ fetchLog' = fetchLog \o r.log
  /\ UNCHANGED <<resolveVars, prepVars, keyVars, appVars, viewVars, scope>>

FetchTimerFires ==
  /\ scope \in {"fetch", "parse"}
  /\ fc.pc = "wait"
  /\ LET r == fetchAfterWait(fc)
     IN fc' = r.call /\ fetchLog' = fetchLog \o r.log
  /\ UNCHANGED <<resolveVars, prepVars, keyVars, appVars, viewVars, scope>>

NextFetch == FetchCall \/ FetchSettles \/ FetchTimerFires

SpecFetch == InitFetch /\ [][NextFetch]_vars

SpecParse == InitParse /\ [][NextFetch]_vars

----------------------------------------------------------------------------
(* prepareFootprints on its own: one call on any short list of rings *)

\* Vertices, in metres from the query point
RingPoints == {[x |-> 0 - 1, y |-> 0], [x |-> 1, y |-> 0], [x |-> 0, y |-> 3]}

\* The rings fetchBuildings can return: at least 3 vertices, the last on the first
Rings ==
  UNION {{Append(r, r[1]) : r \in [1..n -> RingPoints]} : n \in 2..(MaxRing - 1)}

RawFootprints ==
  {[pts |-> r, height |-> Num(9), tags |-> NoTags, metadata |-> <<>>] : r \in Rings}

\* The lists of n footprints
PrepareInputs(n) == [1..n -> RawFootprints]

PlatformSizes == {40, 100}

InitPrepare ==
  /\ scope = "prepare"
  /\ ResolveQuiet /\ FetchQuiet /\ PrepareQuiet /\ ViewQuiet /\ KeysQuiet /\ AppQuiet

PrepareCall ==
  /\ scope = "prepare"
  /\ prep.pc = "idle"
  /\ \E n \in 0..MaxFootprints : \E footprints \in PrepareInputs(n), platformSize \in PlatformSizes :
       prep' = [pc |-> "done", input |-> footprints, platformSize |-> platformSize,
                selection |-> selectPrimaryFootprint(footprints),
                output |-> prepareFootprints(footprints, platformSize, Upm(scope))]
  /\ UNCHANGED <<resolveVars, fetchVars, keyVars, appVars, viewVars, scope>>

\* The prepared footprints are set as state and the effect of Buildings runs
BuildingsEffect ==
  /\ scope = "prepare"
  /\ prep.pc = "done" /\ scene = <<>>
  /\ scene' = Buildings(prep.output)
  /\ UNCHANGED <<resolveVars, fetchVars, prepVars, keyVars, appVars, card, proxy, sky,
                 requests, scope>>

NextPrepare == PrepareCall \/ BuildingsEffect

SpecPrepare == InitPrepare /\ [][NextPrepare]_vars

----------------------------------------------------------------------------
(* C1 *)

InSeq(x, s) == \E i \in 1..Len(s) : s[i] = x

IsEmptyQuery(input) == input = <<>> \/ Trim(input) = <<>>
IsLatLonQuery(input) == ~IsEmptyQuery(input) /\ MatchLatLon(input) # <<>>
IsPlusCodeQuery(input) ==
  ~IsEmptyQuery(input) /\ MatchLatLon(input) = <<>> /\ extractPlusCode(input) # <<>>
IsAddressQuery(input) ==
  ~IsEmptyQuery(input) /\ MatchLatLon(input) = <<>> /\ extractPlusCode(input) = <<>>

\* The parts of C1 other than "the whole input is never sent" in the Plus-Code
\* case: the empty query is rejected without a request, a literal pair is
\* returned as parsed without a request, a Plus Code is resolved by decoding,
\* and anything else is sent whole to Nominatim.
C1_OrderOfStrategies ==
  rl.pc # "idle" =>
    /\ IsEmptyQuery(rl.input) =>
         rl.pc = "error" /\ rl.err = "Empty location query"
           /\ geoReqs = <<>> /\ olcCalls = <<>>
    /\ IsLatLonQuery(rl.input) =>
         /\ rl.pc = "done" /\ rl.via = "latlon" /\ geoReqs = <<>> /\ olcCalls = <<>>
         /\ rl.result = <<Coord(ParseFloat(MatchLatLon(rl.input)[1]),
                                ParseFloat(MatchLatLon(rl.input)[2]))>>
    /\ IsPlusCodeQuery(rl.input) =>
         /\ rl.pc \in {"geoRef", "done", "error"}
         /\ rl.pc \in {"done", "error"} => rl.via = "pluscode" /\ Len(olcCalls) = 1
    /\ IsAddressQuery(rl.input) =>
         /\ rl.pc \in {"geoFull", "done", "error"}
         /\ geoReqs = <<rl.input>> /\ olcCalls = <<>>
         /\ rl.pc \in {"done", "error"} => rl.via = "nominatim"

\* C1: the three strategies apply in a fixed order, the first that applies is
\* used, an empty query is rejected before any request, and a query holding a
\* Plus Code is never sent whole to the full-text geocoder.
C1_FirstStrategyThatApplies ==
  /\ C1_OrderOfStrategies
  /\ (rl.pc # "idle" /\ IsPlusCodeQuery(rl.input)) => ~InSeq(rl.input, geoReqs)

\* fetchBuildings where every request is answered and every timer fires
SpecFetchLive == SpecFetch /\ WF_vars(NextFetch)

----------------------------------------------------------------------------
(* C2, C3, C4, C7 *)

RequestsOf(log) == SelectSeq(log, LAMBDA e : e.ev = "request")
WaitsOf(log) == SelectSeq(log, LAMBDA e : e.ev = "wait")

C3_BoundedAttempts ==
  LET reqs == RequestsOf(fetchLog)
      n == Len(fetchLog)
  IN /\ Len(reqs) <= 6
     /\ \A m \in {"de", "kumi", "ru"} :
          Cardinality({k \in 1..Len(reqs) : reqs[k].endpoint = m}) <= 2
     /\ \A i \in 1..n :
          (fetchLog[i].ev = "response" /\ fetchLog[i].kind = "ok") =>
            i = n /\ fc.pc = "done"
     /\ fc.pc = "done" => fetchLog[n].ev = "response" /\ fetchLog[n].kind = "ok"
     /\ fc.pc \in {"idle", "request", "wait", "done", "error"}
     /\ fc.pc = "request" => fetchLog[n].ev = "request"
     /\ fc.pc = "wait" => fetchLog[n].ev = "wait"
     /\ fc.pc = "error" =>
          /\ Len(reqs) = 6
          /\ \A i \in 1..n : fetchLog[i].ev = "response" => fetchLog[i].kind # "ok"
          /\ fc.err \in {"Building data unavailable (last error: unknown)",
                         "Building data unavailable (last error: Overpass API returned 500)",
                         "Building data unavailable (last error: Failed to fetch)",
                         "Building data unavailable (last error: Unexpected token)"}

\* Termination proper, under SpecFetchLive: every call settles
C3_Terminates == <>(fc.pc \in {"done", "error"})

\* A call rejected after six failed requests of more than one kind
C3_Witness ==
  /\ fc.pc = "error"
  /\ Len(RequestsOf(fetchLog)) = 6
  /\ \E i, j \in 1..Len(fetchLog) :
       /\ fetchLog[i].ev = "response" /\ fetchLog[i].kind = "retryable"
       /\ fetchLog[j].ev = "response" /\ fetchLog[j].kind = "unparsable"

\* C4 as stated: every wait of a call has the same duration.
C4_FixedBackoff ==
  \A i, j \in 1..Len(fetchLog) :
    (fetchLog[i].ev = "wait" /\ fetchLog[j].ev = "wait") => fetchLog[i].ms = fetchLog[j].ms

\* C4 as amended: the wait is 2000 ms times the attempt number (2000 ms after
\* the first attempt on a mirror, 4000 ms after the second); a retryable status
\* waits after either attempt, a thrown error only after the first.
C4_LinearBackoff ==
  \A i \in 1..Len(fetchLog) :
    /\ fetchLog[i].ev = "wait" =>
         /\ fetchLog[i].attempt = 0 => fetchLog[i].ms = 2000
         /\ fetchLog[i].attempt = 1 => fetchLog[i].ms = 4000
         /\ fetchLog[i].attempt = 1 => fetchLog[i].kind = "retryable"
         /\ i > 1 /\ fetchLog[i - 1].ev = "response"
         /\ fetchLog[i - 1].kind = fetchLog[i].kind
    /\ (fetchLog[i].ev = "response" /\ fetchLog[i].kind # "ok") =>
         \/ i < Len(fetchLog) /\ fetchLog[i + 1].ev = "wait"
         \/ fetchLog[i].kind # "retryable" /\ fetchLog[i].attempt = 1

\* A call that waited 2000 ms and 4000 ms, and moved on once without waiting
C4_Witness ==
  /\ \E i, j \in 1..Len(fetchLog) :
       /\ fetchLog[i].ev = "wait" /\ fetchLog[i].ms = 2000
       /\ fetchLog[j].ev = "wait" /\ fetchLog[j].ms = 4000
  /\ \E i \in 1..(Len(fetchLog) - 1) :
       fetchLog[i].ev = "response" /\ fetchLog[i + 1].ev = "request"

DistinctPoints(pts) == {pts[i] : i \in 1..Len(pts)}

\* C7: every footprint fetchBuildings returns is closed (its last point within
\* 0.01 m of its first) and has at least 3 distinct points.
C7_ClosedPolygons ==
  fc.pc = "done" =>
    \A i \in 1..Len(fc.result) :
      /\ ~IsOpenRing(fc.result[i].pts, Upm(scope))
      /\ Cardinality(DistinctPoints(fc.result[i].pts)) >= 3

\* The part of C7 the code keeps: every footprint returned is closed and comes
\* from a way with at least 3 coordinates.
C7_ClosedRings ==
  fc.pc = "done" =>
    \A i \in 1..Len(fc.result) :
      ~IsOpenRing(fc.result[i].pts, Upm(scope)) /\ Len(fc.result[i].pts) >= 3

----------------------------------------------------------------------------
(* C5, C6 *)

\* The squared distance from the origin to the average of the vertices
VertexAverageDist2(pts) ==
  [num |-> SumOf(pts, "x") * SumOf(pts, "x") + SumOf(pts, "y") * SumOf(pts, "y"),
   den |-> Len(pts) * Len(pts)]

\* The footprint nearest the origin, the lowest index winning ties
NearestIndex(footprints) ==
  CHOOSE h \in 1..Len(footprints) :
    \A j \in 1..Len(footprints) :
      /\ ~FracLess(VertexAverageDist2(footprints[j].pts), VertexAverageDist2(footprints[h].pts))
      /\ FracEq(VertexAverageDist2(footprints[j].pts), VertexAverageDist2(footprints[h].pts))
           => h <= j

Heroes(out) == {i \in 1..Len(out) : out[i].metadata # <<>> /\ out[i].metadata[1].hero}

\* C5: prepareFootprints keeps the length and the order of the list and marks
\* exactly one footprint as hero, the one whose vertex average is nearest the
\* origin (lowest index on ties); an empty list gives null and an empty list.
C5_HeroIsNearest ==
  prep.pc = "done" =>
    IF prep.input = <<>>
    THEN prep.selection = <<>> /\ prep.output = <<>>
    ELSE LET in == prep.input
             out == prep.output
         IN /\ Len(out) = Len(in)
            /\ \A i \in 1..Len(in) :
                 /\ out[i].tags = in[i].tags
                 /\ Len(out[i].pts) = Len(in[i].pts)
                 /\ \A j \in 1..Len(in[i].pts) :
                      \* the same vertices, footprint by footprint, up to one translation
                      /\ out[i].pts[j].x.num - out[1].pts[1].x.num
                           = out[i].pts[j].x.den * (in[i].pts[j].x - in[1].pts[1].x)
                      /\ out[i].pts[j].y.num - out[1].pts[1].y.num
                           = out[i].pts[j].y.den * (in[i].pts[j].y - in[1].pts[1].y)
            /\ Heroes(out) = {NearestIndex(in)}
            /\ prep.selection # <<>> /\ prep.selection[1].index = NearestIndex(in)

\* Two different footprints equally near the origin: the first is the hero
C5_Witness ==
  /\ prep.pc = "done" /\ Len(prep.input) = 2
  /\ prep.input[1] # prep.input[2]
  /\ FracEq(VertexAverageDist2(prep.input[1].pts), VertexAverageDist2(prep.input[2].pts))
  /\ Heroes(prep.output) = {1}

\* The largest squared distance from the vertex average to a vertex, and at
\* least one metre squared
BoundingRadius2(pts, upm) ==
  LET n == Len(pts)
      D2(j) == [num |-> (n * pts[j].x - SumOf(pts, "x")) * (n * pts[j].x - SumOf(pts, "x"))
                          + (n * pts[j].y - SumOf(pts, "y")) * (n * pts[j].y - SumOf(pts, "y")),
                den |-> n * n]
      far == CHOOSE j \in 1..n : \A k \in 1..n : ~FracLess(D2(j), D2(k))
  IN IF FracLess(D2(far), [num |-> upm * upm, den |-> 1])
     THEN [num |-> upm * upm, den |-> 1]
     ELSE D2(far)

\* q * margin / sqrt(r2) has a square of at most margin squared exactly when
\* margin = 0 or the square of q is at most r2
WithinMargin(pt) ==
  \/ pt.x.by.margin.num = 0
  \/ (pt.x.num * pt.x.num + pt.y.num * pt.y.num) * pt.x.by.r2.den
       <= pt.x.by.r2.num * pt.x.den * pt.x.den

\* C6: every footprint is translated by the hero's centroid and every
\* coordinate and height multiplied by the one factor
\* 0.35 * platformSize / max(1, hero bounding radius); so the hero's vertices
\* average to the origin, lie within 0.35 * platformSize of it, and every
\* footprint carries the same metadata.scale.
C6_CentredAndFitted ==
  (prep.pc = "done" /\ prep.input # <<>>) =>
    LET in == prep.input
        out == prep.output
        h == NearestIndex(in)
        n == Len(in[h].pts)
        sx == SumOf(in[h].pts, "x")
        sy == SumOf(in[h].pts, "y")
        r2 == BoundingRadius2(in[h].pts, Upm(scope))
        IsFit(f) ==
          /\ f.margin.num * 100 = 35 * prep.platformSize * Upm(scope) * f.margin.den
          /\ FracEq(f.r2, r2)
    IN /\ \A i \in 1..Len(in) :
            /\ IsFit(out[i].metadata[1].scale)
            /\ out[i].metadata[1].scale = out[1].metadata[1].scale
            /\ out[i].height.by = out[i].metadata[1].scale
            /\ FracEq(out[i].height, in[i].height)
            /\ \A j \in 1..Len(in[i].pts) :
                 /\ out[i].pts[j].x.by = out[i].metadata[1].scale
                 /\ out[i].pts[j].y.by = out[i].metadata[1].scale
                 /\ FracEq(out[i].pts[j].x, [num |-> n * in[i].pts[j].x - sx, den |-> n])
                 /\ FracEq(out[i].pts[j].y, [num |-> n * in[i].pts[j].y - sy, den |-> n])
       /\ SumOf([j \in 1..n |-> [x |-> out[h].pts[j].x.num, y |-> out[h].pts[j].y.num]], "x") = 0
       /\ SumOf([j \in 1..n |-> [x |-> out[h].pts[j].x.num, y |-> out[h].pts[j].y.num]], "y") = 0
       /\ out[h].metadata[1].centroid.x.num = 0 /\ out[h].metadata[1].centroid.y.num = 0
       /\ \A j \in 1..n : WithinMargin(out[h].pts[j])

\* A hero wider than one metre beside a second footprint that is not the hero
C6_Witness ==
  /\ prep.pc = "done" /\ Len(prep.input) = 2
  /\ Heroes(prep.output) = {2}
  /\ FracLess([num |-> 1, den |-> 1], prep.output[1].metadata[1].scale.r2)
  /\ prep.output[1].pts # prep.output[2].pts

----------------------------------------------------------------------------
(* The API keys provider: keys in React state and in local storage *)

\* The fields of ApiKeys, in declaration order
Fields == <<"openai", "gemini", "huggingface", "ollama">>

FieldSet == {Fields[i] : i \in 1..Len(Fields)}

\* The keys the build's environment provides
envDefaultKeys == [openai |-> "env", gemini |-> "", huggingface |-> "", ollama |-> ""]

getEnvApiKeys == [f \in FieldSet |-> envDefaultKeys[f]]

defaultKeys == getEnvApiKeys

\* { ...a, ...b }
Spread(a, b) ==
  [f \in DOMAIN a \cup DOMAIN b |-> IF f \in DOMAIN b THEN b[f] ELSE a[f]]

\* JSON text as its tokens: "{", then a name and a value per member, then "}"
RECURSIVE Members(_, _)
Members(obj, names) ==
  IF names = <<>> THEN <<>>
  ELSE (IF Head(names) \in DOMAIN obj THEN <<Head(names), obj[Head(names)]>> ELSE <<>>)
         \o Members(obj, Tail(names))

JSONstringify(obj) == <<"{">> \o Members(obj, Fields) \o <<"}">>

\* JSON.parse: the object the text denotes, or nothing when it throws
JSONparse(raw) ==
  IF Len(raw) < 2 \/ Len(raw) % 2 # 0 \/ raw[1] # "{" \/ raw[Len(raw)] # "}"
  THEN <<>>
  ELSE LET n == (Len(raw) - 2) \div 2
           last(f) == CHOOSE k \in 1..n : raw[2 * k] = f /\ \A j \in (k + 1)..n : raw[2 * j] # f
       IN <<[f \in {raw[2 * k] : k \in 1..n} |-> raw[2 * last(f) + 1]]>>

\* Mutant of readFromStorage: the env keys win over the stored ones
readFromStorage_EnvWins(stored) ==
  IF stored = <<>> \/ stored[1] = <<>> \/ JSONparse(stored[1]) = <<>>
  THEN defaultKeys
  ELSE Spread(JSONparse(stored[1])[1], defaultKeys)

\* The stored entry under STORAGE_KEY: <<>> when absent, else <<text>>
readFromStorage(stored) ==
  IF stored = <<>> \/ stored[1] = <<>>
  THEN defaultKeys
  ELSE LET parsed == JSONparse(stored[1])
       IN IF parsed = <<>> THEN defaultKeys ELSE Spread(defaultKeys, parsed[1])

\* setItem either stores the text or throws, and the throw is swallowed
writeToStorage(value, stored, accepted) ==
  IF accepted THEN <<JSONstringify(value)>> ELSE stored

\* Mutant of persist: the state is set and nothing is written
persist_NoWrite(next, stored, accepted) ==
  [keys |-> next, stored |-> stored]

persist(next, stored, accepted) ==
  [keys |-> next, stored |-> writeToStorage(next, stored, accepted)]

setKeys(next, stored, accepted) == persist(next, stored, accepted)

\* keys is the state as of the render that made the callback
updateKey(keys, provider, value, stored, accepted) ==
  persist([keys EXCEPT ![provider] = value], stored, accepted)

resetKeys(stored, accepted) ==
  [keys |-> persist(defaultKeys, stored, accepted).keys, stored |-> <<>>]

KeyValues == {"", "k"}

\* What the entry can hold when the provider mounts: nothing, an empty text,
\* text that is not JSON, or the JSON of some of the four fields
StoredAtMount ==
  {<<>>, <<<<>>>>, <<<<"{">>>>}
    \cup {<<JSONstringify(p)>> :
            p \in UNION {[s -> KeyValues] : s \in SUBSET FieldSet}}

\* Whether every write so far was accepted
Written(accepted) ==
  IF accepted /\ persisted # "failed" THEN "ok" ELSE "failed"

InitKeys ==
  /\ scope = "keys"
  /\ ResolveQuiet /\ FetchQuiet /\ PrepareQuiet /\ ViewQuiet /\ AppQuiet
  /\ storage \in StoredAtMount
  /\ keysState = readFromStorage(storage)
  /\ keysRendered = keysState
  /\ persisted = "none"
  /\ inbox = <<>> /\ overlapped = FALSE

SetKeys ==
  /\ scope = "keys"
  /\ \E next \in [FieldSet -> KeyValues], accepted \in BOOLEAN :
       LET p == setKeys(next, storage, accepted)
       IN /\ keysState' = p.keys
          /\ storage' = p.stored
          /\ persisted' = Written(accepted)
  /\ UNCHANGED <<keysRendered, inbox, overlapped, resolveVars, fetchVars, prepVars, appVars,
                 viewVars, scope>>

UpdateKey ==
  /\ scope = "keys"
  /\ \E provider \in FieldSet, value \in KeyValues, accepted \in BOOLEAN :
       LET p == updateKey(keysRendered, provider, value, storage, accepted)
       IN /\ keysState' = p.keys
          /\ storage' = p.stored
          /\ persisted' = Written(accepted)
  /\ UNCHANGED <<keysRendered, inbox, overlapped, resolveVars, fetchVars, prepVars, appVars,
                 viewVars, scope>>

ResetKeys ==
  /\ scope = "keys"
  /\ \E accepted \in BOOLEAN :
       LET p == resetKeys(storage, accepted)
       IN /\ keysState' = p.keys
          /\ storage' = p.stored
          /\ persisted' = Written(accepted)
  /\ UNCHANGED <<keysRendered, inbox, overlapped, resolveVars, fetchVars, prepVars, appVars,
                 viewVars, scope>>

\* React renders the provider again with the state last set
RenderKeys ==
  /\ scope = "keys"
  /\ keysRendered # keysState
  /\ keysRendered' = keysState
  /\ UNCHANGED <<keysState, storage, persisted, inbox, overlapped, resolveVars, fetchVars, prepVars,
                 appVars, viewVars, scope>>

NextKeys == SetKeys \/ UpdateKey \/ ResetKeys \/ RenderKeys

SpecKeys == InitKeys /\ [][NextKeys]_vars

----------------------------------------------------------------------------
(* C8 *)

\* C8: once setKeys, updateKey or resetKeys has run and every write was
\* accepted, the stored entry is either absent with the state equal to the
\* env defaults, or is the JSON text of the state, which has exactly the four
\* fields.
C8_KeysPersisted ==
  persisted = "ok" =>
    \/ storage = <<>> /\ keysState = defaultKeys
    \/ /\ storage # <<>>
       /\ DOMAIN keysState = FieldSet
       /\ storage[1] = JSONstringify(keysState)
       /\ JSONparse(storage[1]) = <<keysState>>

\* updateKey ran on keys older than the state and its write was accepted
C8_Witness ==
  /\ persisted = "ok"
  /\ storage # <<>>
  /\ keysState # defaultKeys
  /\ keysRendered # keysState
  /\ \E f \in FieldSet : keysState[f] = "k" /\ keysRendered[f] = "k"

----------------------------------------------------------------------------
(* The App component: state, the two buttons' handlers, the panel's inputs *)

\* n.toFixed(6) for a decimal with at most seven places
RECURSIVE IntDigits(_)
IntDigits(n) ==
  IF n < 10 THEN <<Digits[n + 1]>>
  ELSE Append(IntDigits(n \div 10), Digits[(n % 10) + 1])

toFixed6(d) ==
  LET a == Abs(d.num)
      cut == d.den \div 1000000
      micro == IF d.den <= 1000000
               THEN (a % d.den) * (1000000 \div d.den)
               ELSE (2 * (a % d.den) + cut) \div (2 * cut)
      whole == (a \div d.den) + (micro \div 1000000)
      frac == IntDigits(micro % 1000000)
  IN (IF d.num < 0 THEN <<"-">> ELSE <<>>)
       \o IntDigits(whole) \o <<".">>
       \o [i \in 1..(6 - Len(frac)) |-> "0"] \o frac

\* `${newLat.toFixed(6)}, ${newLon.toFixed(6)}`
FormatLatLon(at) == toFixed6(at.lat) \o <<",", " ">> \o toFixed6(at.lon)

DEFAULT_LAT == [num |-> 5252, den |-> 100]
DEFAULT_LON == [num |-> 13405, den |-> 1000]
DEFAULT_SIZE == 250

\* The App's state after its first render
AppInitial ==
  [locQuery |-> <<"B", "r", "a", "n", "d", "e", "n", "b", "u", "r", "g", " ",
                  "G", "a", "t", "e">>,
   at |-> Coord(DEFAULT_LAT, DEFAULT_LON),
   size |-> DEFAULT_SIZE,
   footprints |-> <<>>,
   loading |-> FALSE,
   error |-> <<>>,
   renderKey |-> 0]

\* No handler is running; a running one holds what its closure captured
NoHandler == [kind |-> "none", locQuery |-> <<>>, at |-> Coord(Num(0), Num(0)), size |-> 0]

\* Mutant of HandlerStarts: the previous error is left in place
HandlerStarts_KeepsError(a) == [a EXCEPT !.loading = TRUE]

\* setLoading(true); setError(null)
HandlerStarts(a) == [a EXCEPT !.loading = TRUE, !.error = <<>>]

\* The catch block and the final setLoading(false)
HandlerFails(a, message, fallbackMessage) ==
  [a EXCEPT !.error = <<IF message = "" THEN fallbackMessage ELSE message>>,
            !.loading = FALSE]

\* Mutant of handleLocateResolved: the query text is left as typed
handleLocateResolved_KeepsQuery(a, call) ==
  IF call.pc = "done"
  THEN [a EXCEPT !.at = call.result[1], !.loading = FALSE]
  ELSE HandlerFails(a, call.err, "Failed to geocode location.")

\* handleLocate resumed after resolveLocationString settled
handleLocateResolved(a, call) ==
  IF call.pc = "done"
  THEN [a EXCEPT !.at = call.result[1],
                 !.locQuery = FormatLatLon(call.result[1]),
                 !.loading = FALSE]
  ELSE HandlerFails(a, call.err, "Failed to geocode location.")

\* Mutant of RenderFetchArgs: the buildings are fetched around the old centre
RenderFetchArgs_Captured(h, resolved) == [at |-> h.at, sizeMeters |-> h.size]

\* The argument handleRender gives fetchBuildings
RenderFetchArgs(h, resolved) == [at |-> resolved, sizeMeters |-> h.size]

\* handleRender resumed after resolveLocationString settled: the new state
\* and, when resolution succeeded, the call of fetchBuildings
handleRenderResolved(a, h, call) ==
  IF call.pc = "done"
  THEN LET args == RenderFetchArgs(h, call.result[1])
           f == fetchBuildings(args.at, args.sizeMeters)
       IN [app |-> [a EXCEPT !.at = call.result[1]], fc |-> f.call, log |-> f.log]
  ELSE [app |-> HandlerFails(a, call.err, "Failed to fetch building data."),
        fc |-> FcIdle, log |-> <<>>]

\* handleRender resumed after fetchBuildings settled
handleRenderFetched(a, h, call, upm) ==
  IF call.pc = "done"
  THEN [a EXCEPT !.footprints = prepareFootprints(call.result, (h.size * 4) \div 10, upm),
                 !.renderKey = a.renderKey + 1,
                 !.loading = FALSE]
  ELSE HandlerFails(a, call.err, "Failed to fetch building data.")

\* The handler's continuation once resolveLocationString has settled
AfterResolve(a, h, call) ==
  IF call.pc \notin {"done", "error"}
  THEN [app |-> a, fc |-> FcIdle, log |-> <<>>, h |-> h]
  ELSE IF h.kind = "locate"
  THEN [app |-> handleLocateResolved(a, call), fc |-> FcIdle, log |-> <<>>, h |-> NoHandler]
  ELSE LET r == handleRenderResolved(a, h, call)
       IN [app |-> r.app, fc |-> r.fc, log |-> r.log,
           h |-> IF call.pc = "done" THEN h ELSE NoHandler]

\* The handler's continuation once a step of fetchBuildings has run
AfterFetch(a, h, call, upm) ==
  IF call.pc \in {"done", "error"}
  THEN [app |-> handleRenderFetched(a, h, call, upm), h |-> NoHandler]
  ELSE [app |-> a, h |-> h]

MaxClicks == 2

\* What the user types into the location field
AppQueries ==
  {<<"2", ",", "2">>, <<"2", "2", "+", "2", "2", " ", "f">>, <<"f">>, <<" ">>}

\* Positions of the area slider
AppSizes == {100, 250}

InitApp ==
  /\ scope = "app"
  /\ ResolveQuiet /\ FetchQuiet /\ PrepareQuiet /\ ViewQuiet /\ KeysQuiet
  /\ app = AppInitial
  /\ handler = NoHandler
  /\ clicks = 0

UserTypes ==
  /\ scope = "app"
  /\ \E q \in AppQueries : q # app.locQuery /\ app' = [app EXCEPT !.locQuery = q]
  /\ UNCHANGED <<handler, clicks, resolveVars, fetchVars, prepVars, keyVars, viewVars, scope>>

UserSetsSize ==
  /\ scope = "app"
  /\ \E s \in AppSizes : s # app.size /\ app' = [app EXCEPT !.size = s]
  /\ UNCHANGED <<handler, clicks, resolveVars, fetchVars, prepVars, keyVars, viewVars, scope>>

\* A click on Center or Fetch: the buttons are disabled while loading.  The
\* handler runs up to its first pending request.
Click(kind) ==
  /\ scope = "app"
  /\ ~app.loading
  /\ clicks < MaxClicks
  /\ \E olc \in OlcOutcomes :
       LET h == [kind |-> kind, locQuery |-> app.locQuery, at |-> app.at, size |-> app.size]
           r == resolveLocationString(h.locQuery, h.at, olc)
           n == AfterResolve(HandlerStarts(app), h, r.call)
       IN /\ rl' = r.call
          /\ geoReqs' = r.sent
          /\ olcCalls' = r.calls
          /\ fc' = n.fc
          /\ fetchLog' = n.log
          /\ app' = n.app
          /\ handler' = n.h
  /\ clicks' = clicks + 1
  /\ UNCHANGED <<prepVars, keyVars, viewVars, scope>>

ClickCenter == Click("locate")

ClickFetch == Click("render")

AppGeocodeSettles ==
  /\ scope = "app"
  /\ handler.kind # "none"
  /\ rl.pc \in {"geoRef", "geoFull"}
  /\ \E g \in GeoOutcomes, olc \in OlcOutcomes :
       LET r == resolveAfterGeocode(rl, g, olc)
           n == AfterResolve(app, handler, r.call)
       IN /\ rl' = r.call
          /\ geoReqs' = geoReqs \o r.sent
          /\ olcCalls' = olcCalls \o r.calls
          /\ fc' = n.fc
          /\ fetchLog' = n.log
          /\ app' = n.app
          /\ handler' = n.h
  /\ UNCHANGED <<clicks, prepVars, keyVars, viewVars, scope>>

AppOverpassSettles ==
  /\ scope = "app"
  /\ handler.kind = "render"
  /\ fc.pc = "request"
  /\ \E o \in OverpassOutcomes(fc.at) : \E halves \in Halves(o) :
       LET r == fetchAfterResponse(fc, o, halves, Upm(scope))
           n == AfterFetch(app, handler, r.call, Upm(scope))
       IN /\ fc' = r.call
          /\ fetchLog' = fetchLog \o r.log
          /\ app' = n.app
          /\ handler' = n.h
  /\ UNCHANGED <<clicks, resolveVars, prepVars, keyVars, viewVars, scope>>

AppTimerFires ==
  /\ scope = "app"
  /\ handler.kind = "render"
  /\ fc.pc = "wait"
  /\ LET r == fetchAfterWait(fc)
         n == AfterFetch(app, handler, r.call, Upm(scope))
     IN /\ fc' = r.call
        /\ fetchLog' = fetchLog \o r.log
        /\ app' = n.app
        /\ handler' = n.h
  /\ UNCHANGED <<clicks, resolveVars, prepVars, keyVars, viewVars, scope>>

NextApp ==
  \/ UserTypes
  \/ UserSetsSize
  \/ ClickCenter
  \/ ClickFetch
  \/ AppGeocodeSettles
  \/ AppOverpassSettles
  \/ AppTimerFires

SpecApp == InitApp /\ [][NextApp]_vars

\* A handler is running exactly while loading is set, and Center and Fetch
\* are disabled while loading is set: no two handlers run at once
OneHandlerAtATime ==
  scope = "app" =>
    /\ handler.kind # "none" <=> app.loading
    /\ handler.kind = "none" => rl.pc \in {"idle", "done", "error"} /\ fc.pc \in {"idle", "done", "error"}
    /\ handler.kind = "locate" => fc.pc = "idle" /\ fetchLog = <<>>

----------------------------------------------------------------------------
(* C10 *)

\* Since the last click: every Overpass request was made after the location
\* was resolved, around the resolved coordinates, which are also in the state
FetchFollowsResolve ==
  (fetchLog # <<>> \/ fc.pc # "idle") =>
    /\ rl.pc = "done"
    /\ fetchLog # <<>> /\ fetchLog[1].ev = "request"
    /\ \A i \in 1..Len(fetchLog) :
         fetchLog[i].at = rl.result[1] /\ fetchLog[i].sizeMeters = fc.sizeMeters
    /\ fc.at = rl.result[1]
    /\ app.at = rl.result[1]

\* A step that changes footprints or renderKey is the one in which
\* fetchBuildings returned, and it sets both from what it returned
RenderStateFollowsFetch ==
  (app'.footprints # app.footprints \/ app'.renderKey # app.renderKey) =>
    /\ handler.kind = "render" /\ rl.pc = "done" /\ fc.pc = "request"
    /\ fc'.pc = "done"
    /\ fetchLog'[Len(fetchLog')].ev = "response" /\ fetchLog'[Len(fetchLog')].kind = "ok"
    /\ app'.renderKey = app.renderKey + 1
    /\ app'.footprints
         = prepareFootprints(fc'.result, (handler.size * 4) \div 10, Upm(scope))

\* C10: in a fetch cycle the Overpass request is made only after the location
\* was resolved and around the resolved coordinates; footprints and renderKey
\* change only when the fetch has succeeded; when resolution fails no Overpass
\* request is made.
C10_GeocodeFetchUpdate ==
  /\ [](scope = "app" =>
          /\ FetchFollowsResolve
          /\ rl.pc = "error" => fetchLog = <<>> /\ fc.pc = "idle")
  /\ [][scope = "app" => RenderStateFollowsFetch]_vars

\* A fetch cycle that resolved an address away from the old centre, retried
\* Overpass once and then showed the buildings
C10_Witness ==
  /\ scope = "app"
  /\ handler.kind = "none"
  /\ rl.via = "nominatim" /\ rl.pc = "done"
  /\ rl.result[1] # AppInitial.at
  /\ fc.pc = "done"
  /\ Len(RequestsOf(fetchLog)) = 2
  /\ app.renderKey = 1
  /\ app.footprints # <<>>
  /\ app.at = rl.result[1]

----------------------------------------------------------------------------
(* C11 *)

\* The awaited call of the running handler that is still pending
CallPending == rl.pc \in {"geoRef", "geoFull"} \/ fc.pc \in {"request", "wait"}

\* An awaited call of the last handler rejected
CallFailed == rl.pc = "error" \/ fc.pc = "error"

\* C11: a handler clears the error when it starts and keeps loading set only
\* while one of its awaited calls is pending; once they have settled loading
\* is false, and the error is the non-empty message of the call that rejected,
\* or null when none rejected.
C11_ErrorsSurfaced ==
  /\ [](scope = "app" =>
          /\ app.loading <=> CallPending
          /\ app.loading => app.error = <<>> /\ handler.kind # "none"
          /\ (~app.loading /\ clicks > 0) =>
               /\ handler.kind = "none"
               /\ CallFailed <=> app.error # <<>>
               /\ rl.pc = "error" => app.error = <<rl.err>>
               /\ fc.pc = "error" => app.error = <<fc.err>>
               /\ app.error # <<>> => app.error[1] # "")
  /\ [][(scope = "app" /\ clicks' = clicks + 1) =>
          (app'.error = <<>> \/ (rl'.pc = "error" /\ app'.error = <<rl'.err>>))]_vars

\* A second handler is waiting for the geocoder after the first one failed:
\* the centre is still the initial one and the error has been cleared
C11_Witness ==
  /\ scope = "app"
  /\ clicks = 2
  /\ rl.pc \in {"geoRef", "geoFull"}
  /\ app.at = AppInitial.at /\ app.renderKey = 0
  /\ app.loading
  /\ app.error = <<>>

\* Every Overpass mirror refused twice: the banner shows fetchBuildings' message
C11_FetchFailed ==
  /\ scope = "app"
  /\ fc.pc = "error"
  /\ ~app.loading
  /\ app.error = <<BuildingDataUnavailable("")>>

----------------------------------------------------------------------------
(* Building descriptions: BuildingInfoCard, useAI, the /building-info proxy *)

\* The request header that carries each provider's key
KeyHeader ==
  [openai |-> "X-OpenAI-Key", gemini |-> "X-Gemini-Key",
   huggingface |-> "X-HuggingFace-Key", ollama |-> "X-Ollama-Key"]

\* Header names compare without regard to case
LowerName(h) ==
  CASE h = "X-OpenAI-Key" -> "x-openai-key"
    [] h = "X-Gemini-Key" -> "x-gemini-key"
    [] h = "X-HuggingFace-Key" -> "x-huggingface-key"
    [] h = "X-Ollama-Key" -> "x-ollama-key"
    [] h = "Content-Type" -> "content-type"
    [] OTHER -> h

\* The headers generateBuildingInfo sends: a key header for every key that
\* is not the empty string, holding the trimmed key
BuildingInfoHeaders(keys) ==
  [h \in {"Content-Type"} \cup {KeyHeader[f] : f \in {g \in FieldSet : keys[g] # <<>>}} |->
     IF h = "Content-Type" THEN <<"j", "s", "o", "n">>
     ELSE Trim(keys[CHOOSE f \in FieldSet : KeyHeader[f] = h])]

\* c.req.header(name): the value, or nothing when the header is absent
HeaderGet(headers, name) ==
  IF \E h \in DOMAIN headers : LowerName(h) = name
  THEN <<headers[CHOOSE h \in DOMAIN headers : LowerName(h) = name]>>
  ELSE <<>>

\* Mutant of ProxyApiKey: the server's key wins over the header
ProxyApiKey_EnvFirst(headers, envKey) ==
  LET got == HeaderGet(headers, "x-openai-key")
  IN IF envKey # <<>> THEN envKey
     ELSE IF got = <<>> THEN <<>> ELSE Trim(got[1])

\* headerKey || c.env.OPENAI_API_KEY : <<>> when neither is usable
ProxyApiKey(headers, envKey) ==
  LET got == HeaderGet(headers, "x-openai-key")
      headerKey == IF got = <<>> THEN <<>> ELSE Trim(got[1])
  IN IF headerKey # <<>> THEN headerKey ELSE envKey

PlaceholderName == "Unknown Building"

PlaceholderDescription ==
  "A unique structure in the urban environment, contributing to the city's architectural diversity."

DefaultDescription == "A building in the urban landscape."

Answer(status, error, name, description) ==
  [status |-> status, error |-> error, name |-> name, description |-> description]

NotConfigured == Answer(500, <<"OpenAI API key not configured">>, <<>>, <<>>)

\* The catch block of the route
ProxyFailed ==
  Answer(500, <<"Failed to generate building information">>,
         <<PlaceholderName>>, <<PlaceholderDescription>>)

ProxyIdle ==
  [pc |-> "idle", from |-> "none", headers |-> <<>>, envKey |-> <<>>, apiKey |-> <<>>,
   description |-> "", llmCalls |-> <<>>, answer |-> <<>>]

\* The route up to its first chat-completion call
buildingInfoReceived(p, bodyParses) ==
  LET apiKey == ProxyApiKey(p.headers, p.envKey)
  IN IF ~bodyParses
     THEN [p EXCEPT !.pc = "answered", !.answer = <<ProxyFailed>>]
     ELSE IF apiKey = <<>>
     THEN [p EXCEPT !.pc = "answered", !.answer = <<NotConfigured>>]
     ELSE [p EXCEPT !.pc = "describing", !.apiKey = apiKey,
                    !.llmCalls = Append(p.llmCalls, [apiKey |-> apiKey, asks |-> "description"])]

\* What a chat-completion call comes back with
LlmOutcomes == {[ok |-> TRUE, content |-> "text"], [ok |-> TRUE, content |-> ""],
                [ok |-> FALSE, content |-> ""]}

\* The route resumed when the description call settles
buildingInfoDescribed(p, llm) ==
  IF ~llm.ok
  THEN [p EXCEPT !.pc = "answered", !.answer = <<ProxyFailed>>]
  ELSE [p EXCEPT !.pc = "naming",
                 !.description = IF llm.content = "" THEN DefaultDescription ELSE llm.content,
                 !.llmCalls = Append(p.llmCalls, [apiKey |-> p.apiKey, asks |-> "name"])]

\* The route resumed when the name call settles
buildingInfoNamed(p, llm) ==
  IF ~llm.ok
  THEN [p EXCEPT !.pc = "answered", !.answer = <<ProxyFailed>>]
  ELSE [p EXCEPT !.pc = "answered",
                 !.answer = <<Answer(200, <<>>,
                                     <<IF llm.content = "" THEN "Building" ELSE llm.content>>,
                                     <<p.description>>)>>]

CardInitial ==
  [pc |-> "idle", aiInfo |-> <<>>, loading |-> FALSE, error |-> <<>>]

\* generateBuildingInfo up to its fetch
generateBuildingInfo(c) ==
  [c EXCEPT !.pc = "waiting", !.loading = TRUE, !.error = <<>>]

\* What generateBuildingInfo returns for an answer (<<>> is null) and the
\* error it sets
BuildingInfoResult(answer) ==
  IF answer.status = 200
  THEN [data |-> <<[name |-> answer.name[1], description |-> answer.description[1]]>>,
        error |-> <<>>]
  ELSE [data |-> <<>>,
        error |-> IF answer.error # <<>> /\ answer.error[1] # ""
                  THEN answer.error
                  ELSE <<"Failed to generate building information">>]

\* loadAIInfo resumed when generateBuildingInfo returns
loadAIInfo(c, answer) ==
  LET r == BuildingInfoResult(answer)
  IN [c EXCEPT !.pc = "done", !.loading = FALSE, !.error = r.error,
               !.aiInfo = IF r.data # <<>> THEN r.data ELSE c.aiInfo]

\* generateBuildingInfo when fetch itself rejects
loadAIInfoUnreachable(c) ==
  [c EXCEPT !.pc = "done", !.loading = FALSE, !.error = <<"Failed to fetch">>]

\* The description the card shows, if any
ShownDescription(c) ==
  IF c.aiInfo # <<>> /\ ~c.loading THEN <<c.aiInfo[1].description>> ELSE <<>>

\* Keys as the hook reads them: sequences of characters
AiKeyValues == {<<>>, <<" ">>, <<"k">>}

\* OPENAI_API_KEY on the server: not set, or set
EnvKeys == {<<>>, <<"s">>}

\* x-openai-key as a client other than the card may send it
DirectHeaders ==
  {[h \in {"Content-Type"} |-> <<"j", "s", "o", "n">>]}
    \cup {[h \in {"Content-Type", "x-openai-key"} |->
             IF h = "Content-Type" THEN <<"j", "s", "o", "n">> ELSE v] :
           v \in {<<>>, <<" ">>, <<" ", "d", " ">>}}

InitAI ==
  /\ scope = "ai"
  /\ ResolveQuiet /\ FetchQuiet /\ PrepareQuiet /\ AppQuiet
  /\ sky = <<>> /\ scene = <<>> /\ requests = <<>>
  /\ keysState \in [FieldSet -> AiKeyValues]
  /\ keysRendered = keysState
  /\ storage = <<>> /\ persisted = "none" /\ inbox = <<>> /\ overlapped = FALSE
  /\ card = CardInitial
  /\ \E envKey \in EnvKeys : proxy = [ProxyIdle EXCEPT !.envKey = envKey]

ProxyFree == proxy.pc \in {"idle", "delivered", "lost"} \/ (proxy.pc = "answered" /\ proxy.from = "other")

\* The card's effect runs loadAIInfo
CardRequests ==
  /\ scope = "ai"
  /\ card.pc \in {"idle", "done"}
  /\ ProxyFree
  /\ card' = generateBuildingInfo(card)
  /\ proxy' = [ProxyIdle EXCEPT !.envKey = proxy.envKey, !.pc = "sent", !.from = "card",
                                !.headers = BuildingInfoHeaders(keysRendered)]
  /\ UNCHANGED <<sky, scene, requests, resolveVars, fetchVars, prepVars, keyVars, appVars, scope>>

\* Some other client posts to the route
DirectRequest ==
  /\ scope = "ai"
  /\ card.pc \in {"idle", "done"}
  /\ ProxyFree
  /\ \E h \in DirectHeaders :
       proxy' = [ProxyIdle EXCEPT !.envKey = proxy.envKey, !.pc = "sent", !.from = "other",
                                 !.headers = h]
  /\ UNCHANGED <<card, sky, scene, requests, resolveVars, fetchVars, prepVars, keyVars, appVars, scope>>

\* The request never reaches the route
RequestLost ==
  /\ scope = "ai"
  /\ proxy.pc = "sent" /\ proxy.from = "card"
  /\ card' = loadAIInfoUnreachable(card)
  /\ proxy' = [proxy EXCEPT !.pc = "lost"]
  /\ UNCHANGED <<sky, scene, requests, resolveVars, fetchVars, prepVars, keyVars, appVars, scope>>

ProxyReceives ==
  /\ scope = "ai"
  /\ proxy.pc = "sent"
  /\ \E bodyParses \in (IF proxy.from = "card" THEN {TRUE} ELSE BOOLEAN) :
       proxy' = buildingInfoReceived(proxy, bodyParses)
  /\ UNCHANGED <<card, sky, scene, requests, resolveVars, fetchVars, prepVars, keyVars, appVars, scope>>

LlmSettles ==
  /\ scope = "ai"
  /\ proxy.pc \in {"describing", "naming"}
  /\ \E llm \in LlmOutcomes :
       proxy' = IF proxy.pc = "describing"
                THEN buildingInfoDescribed(proxy, llm)
                ELSE buildingInfoNamed(proxy, llm)
  /\ UNCHANGED <<card, sky, scene, requests, resolveVars, fetchVars, prepVars, keyVars, appVars, scope>>

CardReceives ==
  /\ scope = "ai"
  /\ proxy.pc = "answered" /\ proxy.from = "card"
  /\ card' = loadAIInfo(card, proxy.answer[1])
  /\ proxy' = [proxy EXCEPT !.pc = "delivered"]
  /\ UNCHANGED <<sky, scene, requests, resolveVars, fetchVars, prepVars, keyVars, appVars, scope>>

NextAI ==
  \/ CardRequests
  \/ DirectRequest
  \/ RequestLost
  \/ ProxyReceives
  \/ LlmSettles
  \/ CardReceives

SpecAI == InitAI /\ [][NextAI]_vars

----------------------------------------------------------------------------
(* C12 *)

\* The card's request reached the model and a chat-completion call failed
LlmFailedForCard ==
  /\ proxy.from = "card"
  /\ proxy.pc \in {"answered", "delivered"}
  /\ proxy.llmCalls # <<>>
  /\ proxy.answer = <<ProxyFailed>>

\* C12 (the route): a failed chat-completion call is answered with the
\* placeholder name and description.
C12_RouteAnswersPlaceholder ==
  (scope = "ai" /\ proxy.pc \in {"answered", "delivered"} /\ proxy.answer[1].status # 200
     /\ proxy.llmCalls # <<>>) =>
    /\ proxy.answer[1].name = <<PlaceholderName>>
    /\ proxy.answer[1].description = <<PlaceholderDescription>>

\* C12: when the chat-completion call fails, the card ends up showing the
\* placeholder description.
C12_PlaceholderShown ==
  (scope = "ai" /\ LlmFailedForCard /\ proxy.pc = "delivered" /\ card.pc = "done") =>
    ShownDescription(card) = <<PlaceholderDescription>>

----------------------------------------------------------------------------
(* C13 *)

\* The input is a Plus Code and nothing else (in either letter case)
IsBareCode(input) ==
  IsPlusCodeQuery(input) /\ ToUpperCase(Trim(input)) = extractPlusCode(input)[1]

NominatimErrors == {"Nominatim error", "No results from Nominatim", "Failed to fetch"}

\* C13 (the fallback): when the locality request of a Plus-Code query settles
\* the code is decoded, against the hit when there is one and against the
\* caller's fallback when the request failed, and a failed request is never
\* the error of the call.
C13_FallbackOnGeocodeFailure ==
  [][(scope = "resolve" /\ rl.pc = "geoRef") =>
       /\ rl'.pc \in {"done", "error"} /\ rl'.via = "pluscode"
       /\ rl'.err \notin NominatimErrors
       /\ geoReqs' = geoReqs
       /\ \E ref \in GeoCoords \cup {rl.fallback} :
            olcCalls' = olcCalls \o <<OlcCall(rl.code[1], ref)>>
       /\ \A g \in GeoOutcomes, olc \in OlcOutcomes :
            ~geocodeNominatim(g).ok =>
              LET r == resolveAfterGeocode(rl, g, olc)
              IN /\ r.calls = <<OlcCall(rl.code[1], rl.fallback)>>
                 /\ olc.valid => r.call.pc = "done" /\ r.call.result = <<olc.at>>
                 /\ r.call.err \notin NominatimErrors]_vars

\* The locality request failed and the code was decoded against the fallback
C13_FellBack ==
  /\ scope = "resolve" /\ rl.pc = "done" /\ rl.via = "pluscode"
  /\ Len(geoReqs) = 1
  /\ olcCalls = <<OlcCall(rl.code[1], rl.fallback)>>

\* C13: in the Plus-Code path an input holding nothing besides the code is
\* decoded without any geocoding request.
C13_NoRequestForBareCode ==
  (scope = "resolve" /\ rl.pc # "idle" /\ IsBareCode(rl.input)) => geoReqs = <<>>

\* A bare code in the code's own letter case is decoded without a request
C13_BareUpperCaseCode ==
  (scope = "resolve" /\ rl.pc # "idle" /\ IsPlusCodeQuery(rl.input)
     /\ Trim(rl.input) = extractPlusCode(rl.input)[1]) =>
    /\ geoReqs = <<>>
    /\ olcCalls = <<OlcCall(extractPlusCode(rl.input)[1], rl.fallback)>>

----------------------------------------------------------------------------
(* C14 *)

\* The key headers a request carries
KeyHeadersOf(headers) == {h \in DOMAIN headers : LowerName(h) # "content-type"}

\* C14 (the key that is needed): the card's request carries the OpenAI key
\* exactly when one is stored, trimmed.
C14_OpenAIKeySent ==
  (scope = "ai" /\ proxy.from = "card") =>
    /\ ("X-OpenAI-Key" \in DOMAIN proxy.headers) <=> (keysState.openai # <<>>)
    /\ keysState.openai # <<>> => proxy.headers["X-OpenAI-Key"] = Trim(keysState.openai)

\* C14: the building-info request, served by OpenAI alone, never carries a
\* Gemini, Hugging Face or Ollama key header, whatever keys are stored.
C14_OnlyNeededKeySent ==
  (scope = "ai" /\ proxy.from = "card") =>
    KeyHeadersOf(proxy.headers) \subseteq {"X-OpenAI-Key"}

----------------------------------------------------------------------------
(* C17 *)

\* The X-OpenAI-Key header of a request after trimming (<<>>: absent or blank)
TrimmedHeaderKey(headers) ==
  IF "x-openai-key" \in {LowerName(h) : h \in DOMAIN headers}
  THEN Trim(HeaderGet(headers, "x-openai-key")[1])
  ELSE <<>>

\* The credential the claim names: the header when usable, else the server's
ClaimedCredential(p) ==
  IF TrimmedHeaderKey(p.headers) # <<>> THEN TrimmedHeaderKey(p.headers) ELSE p.envKey

\* The route answered before it read any credential: the body did not parse
BodyRejected(p) ==
  p.pc \in {"answered", "delivered"} /\ p.llmCalls = <<>> /\ p.answer = <<ProxyFailed>>

C17_NotConfigured ==
  /\ scope = "ai" /\ proxy.pc = "delivered" /\ proxy.from = "card"
  /\ "X-OpenAI-Key" \in DOMAIN proxy.headers
  /\ proxy.headers["X-OpenAI-Key"] = <<>> /\ proxy.envKey = <<>>
  /\ proxy.answer = <<NotConfigured>> /\ proxy.llmCalls = <<>>
  /\ card.error = NotConfigured.error

----------------------------------------------------------------------------
(* C15 *)

\* The footprints that have a mesh in the group
Rendered == {scene.meshes[k].of : k \in 1..Len(scene.meshes)}

\* C15 (the hero): the group holds a mesh for the hero, built from the
\* hero's recentred points, whose centroid is the platform origin.
C15_HeroRendered ==
  (scope = "prepare" /\ scene # <<>> /\ prep.input # <<>>) =>
    /\ Heroes(prep.output) \subseteq Rendered
    /\ \A k \in 1..Len(scene.meshes) :
         /\ scene.meshes[k].pts = prep.output[scene.meshes[k].of].pts
         /\ scene.meshes[k].hero =>
              /\ scene.meshes[k].of = NearestIndex(prep.input)
              /\ prep.output[scene.meshes[k].of].metadata[1].centroid = Origin

\* C15: after a successful fetch only the nearest building renders: the
\* group holds a mesh for the hero footprint and for no other footprint.
C15_OnlyHeroRenders ==
  (scope = "prepare" /\ scene # <<>>) => Rendered = Heroes(prep.output)

----------------------------------------------------------------------------
(* ProceduralPlatform and the Environment controls of the GUI *)

\* Numbers of the sky are held in hundredths (hour 12 is 1200, cover 0.3 is 30)
DEFAULT_SKY_SETTINGS ==
  [t |-> 0, fog |-> 0, cloud_size |-> 45, cloud_covr |-> 30, cloud_dens |-> 4000,
   inclination |-> 4500, azimuth |-> 9000, hour |-> 1200]

DEFAULT_ENVIRONMENT_CONTROLS ==
  [cloudSize |-> DEFAULT_SKY_SETTINGS.cloud_size,
   cloudCover |-> DEFAULT_SKY_SETTINGS.cloud_covr,
   cloudDensity |-> DEFAULT_SKY_SETTINGS.cloud_dens,
   hour |-> DEFAULT_SKY_SETTINGS.hour]

\* useState of envControls in App
EnvControlsInitial ==
  [cloudSize |-> 15000, cloudCover |-> 30, cloudDensity |-> 10, hour |-> 1000]

\* The props App renders ProceduralPlatform with
AppPlatformProps(size, envControls) ==
  [size |-> (size * 4) \div 10, envControls |-> envControls]

\* The props as ProceduralPlatform destructures them, with its defaults
ProceduralPlatformProps(props) ==
  [size |-> IF "size" \in DOMAIN props THEN props.size ELSE 60,
   environmentControls |->
     IF "environmentControls" \in DOMAIN props THEN props.environmentControls
     ELSE DEFAULT_ENVIRONMENT_CONTROLS]

\* The argument of sky.setData for a set of controls
SkyData(settings, controls) ==
  [settings EXCEPT !.cloud_size = controls.cloudSize,
                   !.cloud_covr = controls.cloudCover,
                   !.cloud_dens = controls.cloudDensity,
                   !.hour = controls.hour]

\* applyEnvironment, and the same steps in the controls effect: nothing
\* without a sky that has its material
applyEnvironment(s, controls) ==
  IF ~s.created \/ ~s.ready THEN s
  ELSE [s EXCEPT !.data = <<SkyData(s.settings, controls)>>]

\* The effect on [environmentControls]
controlsEffect(s, environmentControls) ==
  applyEnvironment([s EXCEPT !.pending = environmentControls], environmentControls)

\* The effect that creates the sky: the settings are reset, the new sky has
\* no material yet and no data set
createSky(s) ==
  [s EXCEPT !.settings = DEFAULT_SKY_SETTINGS, !.created = TRUE, !.ready = FALSE,
            !.data = <<>>]

\* handleSkyReady, the callback of SuperSky
handleSkyReady(s) == applyEnvironment([s EXCEPT !.ready = TRUE], s.pending)

\* App and ProceduralPlatform after their first render and effects
SkyMounted ==
  LET props == ProceduralPlatformProps(AppPlatformProps(DEFAULT_SIZE, EnvControlsInitial))
  IN controlsEffect(
       createSky([size |-> DEFAULT_SIZE, env |-> EnvControlsInitial,
                  prop |-> props.environmentControls,
                  pending |-> props.environmentControls,
                  settings |-> DEFAULT_SKY_SETTINGS,
                  created |-> FALSE, ready |-> FALSE, data |-> <<>>]),
       props.environmentControls)

\* App re-rendered with new state: ProceduralPlatform gets its props, and
\* the effects whose dependencies changed run
Rerendered(s, size, env) ==
  LET props == ProceduralPlatformProps(AppPlatformProps(size, env))
      s1 == [s EXCEPT !.size = size, !.env = env, !.prop = props.environmentControls]
      s2 == IF size # s.size THEN createSky(s1) ELSE s1
  IN IF props.environmentControls # s.prop
     THEN controlsEffect(s2, props.environmentControls)
     ELSE s2

\* Values the sliders of the Environment group are moved to
Hours == {600, 1000, 1200, 1800}
CloudSizes == {5000, 15000, 20000}
CloudCovers == {0, 30, 50}

InitSky ==
  /\ scope = "sky"
  /\ ResolveQuiet /\ FetchQuiet /\ PrepareQuiet /\ KeysQuiet /\ AppQuiet
  /\ card = <<>> /\ proxy = <<>> /\ scene = <<>> /\ requests = <<>>
  /\ sky = SkyMounted

\* onChange of "Time (H)", "Cloud Size" or "Cloud Cover"
GuiChangesEnvironment ==
  /\ scope = "sky"
  /\ \E env \in {[sky.env EXCEPT !.hour = v] : v \in Hours}
               \cup {[sky.env EXCEPT !.cloudSize = v] : v \in CloudSizes}
               \cup {[sky.env EXCEPT !.cloudCover = v] : v \in CloudCovers} :
       /\ env # sky.env
       /\ sky' = Rerendered(sky, sky.size, env)
  /\ UNCHANGED <<resolveVars, fetchVars, prepVars, keyVars, appVars, card, proxy, scene, requests, scope>>

\* The size slider of the panel: the platform is resized and the sky recreated
PlatformResized ==
  /\ scope = "sky"
  /\ \E size \in AppSizes \cup {DEFAULT_SIZE} :
       /\ size # sky.size
       /\ sky' = Rerendered(sky, size, sky.env)
  /\ UNCHANGED <<resolveVars, fetchVars, prepVars, keyVars, appVars, card, proxy, scene, requests, scope>>

\* SuperSky has built its material and calls back
SkyReady ==
  /\ scope = "sky"
  /\ sky.created /\ ~sky.ready
  /\ sky' = handleSkyReady(sky)
  /\ UNCHANGED <<resolveVars, fetchVars, prepVars, keyVars, appVars, card, proxy, scene, requests, scope>>

NextSky == GuiChangesEnvironment \/ PlatformResized \/ SkyReady

SpecSky == InitSky /\ [][NextSky]_vars

\* Every sky that is created becomes ready
SpecSkyLive == SpecSky /\ WF_vars(SkyReady)

----------------------------------------------------------------------------
(* C16 *)

EnvironmentValues ==
  {[cloudSize |-> c, cloudCover |-> v, cloudDensity |-> EnvControlsInitial.cloudDensity,
    hour |-> h] : c \in CloudSizes, v \in CloudCovers, h \in Hours}

\* The sky has been given the values of these controls
SkyHolds(env) ==
  /\ sky.ready /\ sky.data # <<>>
  /\ sky.data[1].hour = env.hour
  /\ sky.data[1].cloud_size = env.cloudSize
  /\ sky.data[1].cloud_covr = env.cloudCover

\* C16 (the platform's side): once the sky is ready its settings are those of
\* the controls ProceduralPlatform was rendered with, including controls that
\* arrived before the sky was ready.
C16_PendingApplied ==
  (scope = "sky" /\ sky.ready) =>
    /\ sky.pending = sky.prop
    /\ sky.data = <<SkyData(DEFAULT_SKY_SETTINGS, sky.prop)>>

\* While the sky is ready its settings are those of the GUI's controls
C16_ReadySkyHoldsControls ==
  (scope = "sky" /\ sky.ready /\ sky.env # EnvControlsInitial) => SkyHolds(sky.env)

\* C16: after the user changes an Environment control (Time, Cloud Size or
\* Cloud Cover), the sky settings applied by ProceduralPlatform eventually
\* hold the new values, at once when the sky is ready and otherwise when it
\* becomes ready.
C16_ControlsReachSky ==
  \A env \in EnvironmentValues \ {EnvControlsInitial} :
    (scope = "sky" /\ sky.env = env) ~> (sky.env # env \/ SkyHolds(env))

----------------------------------------------------------------------------
(* C18 *)

\* Nothing has happened since the provider mounted
JustMounted == scope = "keys" /\ persisted = "none"

\* The stored entry is absent, empty or not JSON
NothingUsableStored ==
  storage = <<>> \/ storage[1] = <<>> \/ JSONparse(storage[1]) = <<>>

\* C18: when the provider mounts, each provider's key is the stored value if
\* the stored JSON has that field and the env default otherwise; absent,
\* empty or unparsable stored data yields exactly the env defaults.
C18_StoredOverridesEnv ==
  JustMounted =>
    /\ DOMAIN keysState = FieldSet
    /\ NothingUsableStored => keysState = envDefaultKeys
    /\ ~NothingUsableStored =>
         LET obj == JSONparse(storage[1])[1]
         IN \A f \in FieldSet :
              keysState[f] = IF f \in DOMAIN obj THEN obj[f] ELSE envDefaultKeys[f]

\* An empty stored OpenAI key overrides the env key; Gemini is stored, the
\* other two are not and come from the env
C18_Witness ==
  /\ JustMounted
  /\ storage = <<JSONstringify([openai |-> "", gemini |-> "k"])>>
  /\ keysState = [openai |-> "", gemini |-> "k", huggingface |-> "", ollama |-> ""]
  /\ envDefaultKeys.openai # ""

\* Unparsable stored text: the env defaults
C18_Unparsable ==
  JustMounted /\ storage = <<<<"{">>>> /\ keysState = envDefaultKeys

----------------------------------------------------------------------------
(* C20 *)

\* The keys set since the provider last rendered (one after one updateKey)
Unrendered == {f \in FieldSet : keysState[f] # keysRendered[f]}

\* The keys a step changed
ChangedKeys == {f \in FieldSet : keysState'[f] # keysState[f]}

\* C20 (after a render): an updateKey made once the provider has rendered
\* the current state changes the named provider's key and no other.
C20_UpdateKeyAfterRender ==
  [][(scope = "keys" /\ keysRendered = keysState) =>
       \A provider \in FieldSet, value \in KeyValues, accepted \in BOOLEAN :
         LET p == updateKey(keysRendered, provider, value, storage, accepted)
         IN /\ p.keys[provider] = value
            /\ \A f \in FieldSet \ {provider} : p.keys[f] = keysState[f]]_vars

\* C20: updateKey changes only the named provider's key and preserves the
\* most recent value of the other three, including a value set by an
\* updateKey made just before, while the provider had not rendered again.
C20_UpdateKeyPreservesOthers ==
  [][(scope = "keys" /\ Cardinality(Unrendered) <= 1 /\ UpdateKey) =>
       Cardinality(ChangedKeys) <= 1]_vars

----------------------------------------------------------------------------
(* C19 *)

\* A step in which a Center or Fetch cycle ends without an error
CycleSucceeds ==
  /\ scope = "app"
  /\ app.loading \/ clicks' # clicks
  /\ ~app'.loading /\ app'.error = <<>>

\* Fetch ends with fetchBuildings done; Center never calls it
CenterSucceeds == CycleSucceeds /\ fc'.pc = "idle"
FetchSucceeds == CycleSucceeds /\ fc'.pc = "done"

\* C19 (as it holds): a successful Center cycle overwrites the resolved
\* latitude/longitude and the free-text query, the query with the resolved
\* pair formatted to six decimals; a successful Fetch cycle overwrites the
\* resolved latitude/longitude and leaves the free-text query as it is.
C19_CenterOverwritesQuery ==
  [][/\ CycleSucceeds => (CenterSucceeds \/ FetchSucceeds)
                            /\ rl'.pc = "done" /\ app'.at = rl'.result[1]
     /\ CenterSucceeds => app'.locQuery = FormatLatLon(rl'.result[1])
     /\ FetchSucceeds => app'.locQuery = app.locQuery]_vars

\* After a successful Fetch of an address the query is still the address,
\* and the centre is where the address was found
C19_Witness ==
  /\ scope = "app" /\ ~app.loading /\ app.error = <<>>
  /\ fc.pc = "done" /\ rl.pc = "done" /\ rl.via = "nominatim"
  /\ app.locQuery = <<"f">>
  /\ app.at = rl.result[1] /\ app.at # AppInitial.at
  /\ app.locQuery # FormatLatLon(app.at)

\* After a successful Center of an address the query is the formatted pair
C19_Centered ==
  /\ scope = "app" /\ ~app.loading /\ app.error = <<>>
  /\ fc.pc = "idle" /\ rl.pc = "done" /\ rl.via = "nominatim"
  /\ rl.input = <<"f">>
  /\ app.at = rl.result[1]
  /\ app.locQuery = FormatLatLon(app.at)

\* C19: each successful Center or Fetch cycle overwrites both the free-text
\* query and the resolved latitude/longitude with the newly resolved location.
C19_CycleOverwritesQuery ==
  [][CycleSucceeds =>
       /\ rl'.pc = "done" /\ app'.at = rl'.result[1]
       /\ app'.locQuery = FormatLatLon(rl'.result[1])]_vars

----------------------------------------------------------------------------
(* ApiKeysProvider in two tabs of one browser: setKeys, resetKeys and the
   storage events they cause in the other tab *)

Tabs == {"A", "B"}

\* Events dispatched and not yet handled, per tab, at most
MaxInbox == 2

\* The browser dispatches a storage event to the other documents when a
\* setItem or removeItem changed the entry; newValue is null after a removal
StorageEvents(before, after) == IF after = before THEN <<>> ELSE <<after>>

\* Mutant of storageHandler: the event is ignored
storageHandler_Ignores(keys, newValue) == keys

\* handler(event) for an event on STORAGE_KEY: the keys it sets
storageHandler(keys, newValue) ==
  IF newValue = <<>> \/ newValue[1] = <<>>
  THEN defaultKeys
  ELSE LET parsed == JSONparse(newValue[1])
       IN IF parsed = <<>> THEN defaultKeys ELSE Spread(defaultKeys, parsed[1])

\* The entry between the setItem and the removeItem of resetKeys
AfterResetWrite(stored, accepted) == persist(defaultKeys, stored, accepted).stored

\* Keys a tab's dialog saves
TabKeys ==
  {defaultKeys, [defaultKeys EXCEPT !.gemini = "k"], [defaultKeys EXCEPT !.openai = ""]}

TabStoredAtMount == {<<>>, <<<<"{">>>>, <<JSONstringify([gemini |-> "k"])>>}

Deliver(from, events) ==
  [u \in Tabs |-> IF u = from THEN inbox[u] ELSE inbox[u] \o events]

RoomFor(from, events) ==
  \A u \in Tabs \ {from} : Len(inbox[u]) + Len(events) <= MaxInbox

InitTabs ==
  /\ scope = "tabs"
  /\ ResolveQuiet /\ FetchQuiet /\ PrepareQuiet /\ ViewQuiet /\ AppQuiet
  /\ storage \in TabStoredAtMount
  /\ keysState = [t \in Tabs |-> readFromStorage(storage)]
  /\ keysRendered = <<>>
  /\ persisted = "none"
  /\ inbox = [t \in Tabs |-> <<>>]
  /\ overlapped = FALSE

TabSetKeys(t) ==
  /\ scope = "tabs"
  /\ \E next \in TabKeys, accepted \in BOOLEAN :
       LET p == setKeys(next, storage, accepted)
           events == StorageEvents(storage, p.stored)
       IN /\ RoomFor(t, events)
          /\ keysState' = [keysState EXCEPT ![t] = p.keys]
          /\ storage' = p.stored
          /\ inbox' = Deliver(t, events)
          /\ persisted' = Written(accepted)
  /\ overlapped' = (overlapped \/ inbox[t] # <<>>)
  /\ UNCHANGED <<keysRendered, resolveVars, fetchVars, prepVars, appVars, viewVars, scope>>

TabResetKeys(t) ==
  /\ scope = "tabs"
  /\ \E accepted \in BOOLEAN :
       LET p == resetKeys(storage, accepted)
           mid == AfterResetWrite(storage, accepted)
           events == StorageEvents(storage, mid) \o StorageEvents(mid, p.stored)
       IN /\ RoomFor(t, events)
          /\ keysState' = [keysState EXCEPT ![t] = p.keys]
          /\ storage' = p.stored
          /\ inbox' = Deliver(t, events)
          /\ persisted' = Written(accepted)
  /\ overlapped' = (overlapped \/ inbox[t] # <<>>)
  /\ UNCHANGED <<keysRendered, resolveVars, fetchVars, prepVars, appVars, viewVars, scope>>

\* The tab's listener runs for the oldest event dispatched to it
TabHandlesStorage(t) ==
  /\ scope = "tabs"
  /\ inbox[t] # <<>>
  /\ keysState' = [keysState EXCEPT ![t] = storageHandler(keysState[t], Head(inbox[t]))]
  /\ inbox' = [inbox EXCEPT ![t] = Tail(inbox[t])]
  /\ UNCHANGED <<keysRendered, storage, persisted, overlapped, resolveVars, fetchVars,
                 prepVars, appVars, viewVars, scope>>

NextTabs ==
  \/ \E t \in Tabs : TabSetKeys(t)
  \/ \E t \in Tabs : TabResetKeys(t)
  \/ \E t \in Tabs : TabHandlesStorage(t)

SpecTabs == InitTabs /\ [][NextTabs]_vars

----------------------------------------------------------------------------
(* C21 *)

\* Every storage event has been handled
Quiescent == \A t \in Tabs : inbox[t] = <<>>

\* A step in which a tab handled a storage event
HandlesEvent == \E t \in Tabs : Len(inbox'[t]) < Len(inbox[t])

\* Handling a storage event writes nothing and dispatches nothing
HandlingNeverWrites ==
  [][(scope = "tabs" /\ HandlesEvent) =>
       /\ storage' = storage
       /\ \A t \in Tabs : Len(inbox'[t]) <= Len(inbox[t])]_vars

C21_AfterReset ==
  /\ scope = "tabs" /\ persisted = "ok" /\ ~overlapped /\ Quiescent
  /\ storage = <<>>
  /\ keysState["A"] = defaultKeys /\ keysState["B"] = defaultKeys

----------------------------------------------------------------------------
(* BuildingInfoCard while its props and the keys change: the loadAIInfo effect
   runs again, and generateBuildingInfo is called again, whether or not the
   earlier call has settled *)

\* Calls of generateBuildingInfo in one behaviour, at most
MaxRequests == 3

\* The target building the card is given: lat and lon of its props
CardTargets == {[lat |-> 1, lon |-> 1], [lat |-> 2, lon |-> 1]}

\* What the route answers for a building when the LLM calls succeed
Described(building) ==
  Answer(200, <<>>, <<<<"name", building.lat, building.lon>>>>,
         <<<<"description", building.lat, building.lon>>>>)

\* The answers fetch can resolve with
RouteAnswers(building) == {Described(building), NotConfigured, ProxyFailed}

\* The effect of the card: loadAIInfo calls generateBuildingInfo(buildingData)
loadAIInfoStarts(c, reqs, building) ==
  [card |-> generateBuildingInfo(c),
   requests |-> Append(reqs, [building |-> building, pc |-> "flight", result |-> <<>>])]

\* The call reqs[i] resumes after its fetch: answer is <<>> when fetch rejected
loadAIInfoResumes(c, reqs, i, answer) ==
  [card |-> IF answer = <<>> THEN loadAIInfoUnreachable(c) ELSE loadAIInfo(c, answer[1]),
   requests |-> [reqs EXCEPT ![i].pc = "settled",
                             ![i].result = IF answer = <<>> THEN <<>>
                                           ELSE BuildingInfoResult(answer[1]).data]]

InFlight == {i \in 1..Len(requests) : requests[i].pc = "flight"}

InitOverlap ==
  /\ scope = "overlap"
  /\ ResolveQuiet /\ FetchQuiet /\ PrepareQuiet /\ KeysQuiet /\ AppQuiet
  /\ card = CardInitial
  /\ requests = <<>>
  /\ proxy = <<>> /\ sky = <<>> /\ scene = <<>>

\* The effect runs at mount and whenever generateBuildingInfo (that is, the
\* keys), tags, height, lat or lon changed
CardEffectRuns ==
  /\ scope = "overlap"
  /\ Len(requests) < MaxRequests
  /\ \E building \in CardTargets, keysChanged \in BOOLEAN :
       /\ IF requests = <<>> \/ keysChanged
          THEN TRUE
          ELSE building # requests[Len(requests)].building
       /\ LET r == loadAIInfoStarts(card, requests, building)
          IN card' = r.card /\ requests' = r.requests
  /\ UNCHANGED <<proxy, sky, scene, resolveVars, fetchVars, prepVars, keyVars, appVars, scope>>

\* The fetch of any call in flight settles: no order is imposed on them
CardFetchSettles ==
  /\ scope = "overlap"
  /\ \E i \in InFlight :
       \E answer \in {<<>>} \cup {<<a>> : a \in RouteAnswers(requests[i].building)} :
         LET r == loadAIInfoResumes(card, requests, i, answer)
         IN card' = r.card /\ requests' = r.requests
  /\ UNCHANGED <<proxy, sky, scene, resolveVars, fetchVars, prepVars, keyVars, appVars, scope>>

NextOverlap == CardEffectRuns \/ CardFetchSettles

SpecOverlap == InitOverlap /\ [][NextOverlap]_vars

----------------------------------------------------------------------------
(* C22 *)

\* The flag is never left on: while loading is true a request is in flight
C22_LoadingOnlyInFlight ==
  (scope = "overlap" /\ card.loading) => InFlight # {}

\* With a single request the flag is exact
C22_SingleRequestExact ==
  (scope = "overlap" /\ Len(requests) = 1) => (card.loading <=> InFlight # {})

\* C22: the loading flag of useAI is true whenever at least one
\* generateBuildingInfo request is in flight and false only when none is,
\* also when a second request is issued before the first one has settled.
C22_LoadingWhileInFlight ==
  scope = "overlap" => (card.loading <=> InFlight # {})

----------------------------------------------------------------------------
(* C23 *)

\* The AI name and description the card renders, if any: both come from
\* aiInfo and neither is rendered while loading
AiShown(c) == IF c.aiInfo # <<>> /\ ~c.loading THEN c.aiInfo ELSE <<>>

LastRequest == requests[Len(requests)]

\* The request that settles in this step, as a set
Settling == {i \in InFlight : requests'[i].pc = "settled"}

\* What is shown came from the response to one of the card's requests
C23_ShownIsSomeResponse ==
  (scope = "overlap" /\ AiShown(card) # <<>>) =>
    \E i \in 1..Len(requests) :
      requests[i].pc = "settled" /\ requests[i].result = AiShown(card)

\* A response to an earlier request that arrives after the response to a
\* newer one does not replace it
C23_LateResponseDiscarded ==
  [][(scope = "overlap" /\
      \E i \in Settling : \E j \in (i + 1)..Len(requests) :
        requests[j].pc = "settled" /\ requests[j].result # <<>>)
     => card'.aiInfo = card.aiInfo]_vars

\* Once the most recently issued request has failed, no older response is
\* displayed
C23_FailedNewerShowsNothing ==
  (scope = "overlap" /\ requests # <<>> /\ InFlight = {} /\ LastRequest.result = <<>>) =>
    AiShown(card) = <<>>

\* C23: the AI name and description shown by the building card are always
\* those of the response to the most recently issued generateBuildingInfo
\* request: a late response to an earlier request never replaces a newer
\* one, and a failed newer request does not leave an older response shown.
C23_ShowsLatestResponse ==
  (scope = "overlap" /\ AiShown(card) # <<>>) =>
    /\ LastRequest.pc = "settled"
    /\ LastRequest.result = AiShown(card)

====
